---- MODULE Spec2Model ----
(***************************************************************************)
(* A model of the expression AST core of flang: the literal constants      *)
(* (lib/AST Expr.cpp, Expr.h), the designators and their source spans, and *)
(* the array-shape specifications.                                         *)
(*                                                                         *)
(* Text is a sequence of byte values (ASCII codes), so that case folding,  *)
(* digit conversion and the C string functions are computed as the code    *)
(* computes them.  A pointer to a node is its index in the arena sequence  *)
(* `nodes`; 0 is the null pointer.  A 64-bit word is four 16-bit limbs,    *)
(* least significant first, so that 64-bit wrap-around is exact.           *)
(***************************************************************************)
EXTENDS Integers, Sequences, FiniteSets, TLC

VARIABLES
  nodes,       \* the expression nodes allocated in the ASTContext, in order
  charBufs,    \* the char arrays allocated in the ASTContext (new (C) char[n])
  tokenBuf,    \* the caller's storage the StringRef argument points into
  tokKind,     \* the kind of the token in tokenBuf, which selects the factory
  call,        \* the last factory call: its name and its text argument
  aborted,     \* an assertion failed: the compilation was terminated
  NDEBUG,      \* the build: TRUE when assert() is compiled out
  decls,       \* the variable declarations: which are marked used as variable
  arraySpecs   \* the array specifications allocated in the ASTContext, in order

\* One numeric storage (the Num member of a constant) and the word arrays the
\* ASTContext has handed out for it.
VARIABLES
  Num,         \* the APNumericStorage: BitWidth and the VAL / pVal union
  pValBuf,     \* the word array of wordBufs pVal points to; 0 when the union
               \* holds the inline word
  wordBufs,    \* the arrays allocated by new (C) uint64_t[n], in order, each
               \* with the number of times it was passed to Deallocate
  wildFrees,   \* the Deallocate calls whose argument was no array of wordBufs
  stored,      \* the arguments of the setValue calls so far, in order
  readResult   \* what the last read of the storage came to

memvars == <<Num, pValBuf, wordBufs, wildFrees, stored, readResult>>

\* Several ASTContexts side by side.
VARIABLES
  arena,       \* for each ASTContext, the objects allocated from it, in order
  heap         \* the objects allocated from the general heap, in order

ctxvars == <<arena, heap>>

\* The code generator at one character assignment.
VARIABLES
  stmt,        \* the assignment EmitCharacterAssignment was called with
  Dest,        \* its local Dest: the character value of the left-hand side
  Src,         \* its local Src: the value the emitter returned for the
               \* right-hand side
  EV,          \* the destination the CharacterExprEmitter EV holds at the end
  emitted,     \* the calls of run-time functions emitted, in order
  temps,       \* the temporaries allocated, in order
  takers       \* the expressions whose visit took the destination, in order

cgvars == <<stmt, Dest, Src, EV, emitted, temps, takers>>

\* The end-of-span query.
VARIABLES
  locEnd       \* what the last call of getLocEnd came to

qvars == <<locEnd>>

\* The backend: one EmitAssemblyHelper and what it was constructed with.
VARIABLES
  TheModule,          \* the functions of the module: for each, isDeclaration()
  VerifyModule,       \* CodeGenOpts.VerifyModule
  backendAction,      \* the Action EmitAssembly was called with
  targetFound,        \* whether TargetRegistry::lookupTarget found the target
  TM,                 \* the target machine, or the null pointer
  Diags,              \* the diagnostics reported, in order
  PerFunctionPasses,  \* each pass manager: whether it was created, and its
  PerModulePasses,    \* passes in the order they were added
  CodeGenPasses,
  ran                 \* the runs of the pass managers, in order

bevars ==
  <<TheModule, VerifyModule, backendAction, targetFound, TM, Diags,
    PerFunctionPasses, PerModulePasses, CodeGenPasses, ran>>

extvars == <<memvars, ctxvars, cgvars, qvars, bevars>>

vars ==
  <<nodes, charBufs, tokenBuf, tokKind, call, aborted, NDEBUG, decls, arraySpecs,
    extvars>>

----------------------------------------------------------------------------
(* Bounds of the model.                                                    *)

MaxDigits == 24
MaxBOZDigits == 2
MaxChars == 3
MaxNodes == 4
MaxSpecs == 3

----------------------------------------------------------------------------
(* Words and arbitrary-precision integers (llvm::APInt as the code uses it) *)

LimbBase == 2^16
LimbsPerWord == 64 \div 16
IntegerBitWidth == 64

Min(a, b) == IF a < b THEN a ELSE b
Max(a, b) == IF a > b THEN a ELSE b

Zeros(n) == [i \in 1..n |-> 0]

\* llvm::APInt::getNumWords(BitWidth)
getNumWords(BitWidth) == (BitWidth + 63) \div 64

\* limbs := limbs * m + a, within Len(limbs) limbs: the carry out of the last
\* limb is dropped, which is the wrap-around of fixed-width arithmetic.
RECURSIVE MulAddFrom(_, _, _, _)
MulAddFrom(limbs, i, m, carry) ==
  IF i > Len(limbs) THEN <<>>
  ELSE LET t == limbs[i] * m + carry
       IN  <<t % LimbBase>> \o MulAddFrom(limbs, i + 1, m, t \div LimbBase)

MulAdd(limbs, m, a) == MulAddFrom(limbs, 1, m, a)

\* APInt::clearUnusedBits: the bits at and above `width` are zero.
clearUnusedBits(limbs, width) ==
  [i \in 1..Len(limbs) |->
     IF 16 * i <= width THEN limbs[i]
     ELSE IF 16 * (i - 1) >= width THEN 0
     ELSE limbs[i] % (2 ^ (width - 16 * (i - 1)))]

\* The numeric value of a digit character in a radix, -1 when it is none
\* (the digit conversion of APInt::fromString and StringRef::getAsInteger).
CharVal(c) ==
  IF c >= 48 /\ c <= 57 THEN c - 48           \* '0'..'9'
  ELSE IF c >= 97 /\ c <= 122 THEN c - 97 + 10  \* 'a'..'z'
  ELSE IF c >= 65 /\ c <= 90 THEN c - 65 + 10   \* 'A'..'Z'
  ELSE -1

RECURSIVE FromDigits(_, _, _, _)
FromDigits(str, i, radix, acc) ==
  IF i > Len(str) THEN acc
  ELSE FromDigits(str, i + 1, radix, MulAdd(acc, radix, CharVal(str[i])))

\* APInt::fromString's assertion "Insufficient bit width" for radix 10.
SufficientBitWidth(numbits, str) == ((Len(str) - 1) * 64) \div 22 <= numbits

\* llvm::APInt(numbits, str, radix): the digits accumulated in numbits bits.
APIntFromString(numbits, str, radix) ==
  [BitWidth |-> numbits,
   limbs |-> clearUnusedBits(
               FromDigits(str, 1, radix, Zeros(LimbsPerWord * getNumWords(numbits))),
               numbits)]

----------------------------------------------------------------------------
(* APNumericStorage: the bit width and the union of an inline word and a    *)
(* pointer to a word array.                                                 *)

\* APNumericStorage() : BitWidth(0), VAL(0)
APNumericStorage == [BitWidth |-> 0, VAL |-> Zeros(LimbsPerWord), pVal |-> <<>>]

\* A variant that takes every storage to hold a pointer.
hasAllocation_Always(S) == getNumWords(S.BitWidth) >= 0

hasAllocation(S) == getNumWords(S.BitWidth) > 1

\* A variant that keeps only the first word, inline, whatever the width.
setIntValue_Inline(S, Val) ==
  [BitWidth |-> Val.BitWidth,
   VAL |-> IF Val.limbs = <<>> THEN Zeros(LimbsPerWord)
           ELSE SubSeq(Val.limbs, 1, LimbsPerWord),
   pVal |-> <<>>]

\* APNumericStorage::setIntValue: the words of Val are copied to a new array
\* when there are several, and the single word is stored inline otherwise.
setIntValue(S, Val) ==
  LET NumWords == getNumWords(Val.BitWidth)
  IN  IF NumWords > 1
        THEN [BitWidth |-> Val.BitWidth, VAL |-> S.VAL, pVal |-> Val.limbs]
      ELSE IF NumWords = 1
        THEN [BitWidth |-> Val.BitWidth, VAL |-> Val.limbs, pVal |-> <<>>]
      ELSE [BitWidth |-> Val.BitWidth, VAL |-> Zeros(LimbsPerWord), pVal |-> <<>>]

\* APNumericStorage::getIntValue
getIntValue(S) ==
  LET NumWords == getNumWords(S.BitWidth)
  IN  IF NumWords > 1
        THEN [BitWidth |-> S.BitWidth, limbs |-> clearUnusedBits(S.pVal, S.BitWidth)]
        ELSE [BitWidth |-> S.BitWidth, limbs |-> clearUnusedBits(S.VAL, S.BitWidth)]

----------------------------------------------------------------------------
(* Text functions of llvm::StringRef and the C library.                     *)

npos == -1

ascii_tolower(x) == IF x >= 65 /\ x <= 90 THEN x - 65 + 97 ELSE x

\* ascii_strncasecmp: the first difference of the lower-cased bytes.
RECURSIVE ascii_strncasecmp(_, _, _, _)
ascii_strncasecmp(LHS, RHS, i, Length) ==
  IF i > Length THEN 0
  ELSE LET l == ascii_tolower(LHS[i])
           r == ascii_tolower(RHS[i])
       IN  IF l # r THEN (IF l < r THEN -1 ELSE 1)
           ELSE ascii_strncasecmp(LHS, RHS, i + 1, Length)

\* StringRef::compare_lower
compare_lower(LHS, RHS) ==
  LET Res == ascii_strncasecmp(LHS, RHS, 1, Min(Len(LHS), Len(RHS)))
  IN  IF Res # 0 THEN Res
      ELSE IF Len(LHS) = Len(RHS) THEN 0
      ELSE IF Len(LHS) < Len(RHS) THEN -1 ELSE 1

\* StringRef::rfind(char): the last 0-based index of c, npos when there is none.
rfind(str, c) ==
  LET found == {i \in 1..Len(str) : str[i] = c}
  IN  IF found = {} THEN npos
      ELSE (CHOOSE i \in found : \A j \in found : j <= i) - 1

\* StringRef::slice(Start, End), 0-based and half open; npos is the largest
\* size_t, so an End of npos is cut to the length.
slice(str, Start, End) ==
  LET s == Min(Start, Len(str))
      e == IF End = npos THEN Len(str) ELSE Min(Max(s, End), Len(str))
  IN  SubSeq(str, s + 1, e)

\* strncpy(dst, src, n): the bytes up to the first NUL, then NUL padding.
strncpy(src, n) ==
  [i \in 1..n |-> IF \E j \in 1..i : src[j] = 0 THEN 0 ELSE src[i]]

\* StringRef::getAsInteger(Radix, APInt &Result) on a default APInt (1 bit):
\* leading zeros are skipped, the width is log2(radix) bits a digit, and the
\* digits are accumulated until the first byte that is no digit of the radix.
Log2Radix(Radix) == CHOOSE k \in 0..6 : 2^k >= Radix /\ \A j \in 0..(k-1) : 2^j < Radix

RECURSIVE SkipZeros(_)
SkipZeros(str) ==
  IF str # <<>> /\ Head(str) = 48 THEN SkipZeros(Tail(str)) ELSE str

RECURSIVE ParseDigits(_, _, _, _)
ParseDigits(str, i, Radix, acc) ==
  IF i > Len(str) THEN acc
  ELSE LET v == CharVal(str[i])
       IN  IF v < 0 \/ v >= Radix THEN acc
           ELSE ParseDigits(str, i + 1, Radix, MulAdd(acc, Radix, v))

getAsInteger(NumStr, Radix) ==
  LET Str == SkipZeros(NumStr)
      BitWidth == Max(Log2Radix(Radix) * Len(Str), 1)
  IN  IF Str = <<>>
        THEN [BitWidth |-> 64, limbs |-> Zeros(LimbsPerWord)]
        ELSE [BitWidth |-> BitWidth,
              limbs |-> ParseDigits(Str, 1, Radix,
                                    Zeros(LimbsPerWord * getNumWords(BitWidth)))]

----------------------------------------------------------------------------
(* The constant expressions.  A node is a record: cls is the kind tag, Ty   *)
(* the type slot, Loc the location, and the rest the variant's payload.     *)

\* ConstantExpr::ConstantExpr: the kind selector starts null.
ConstantExpr(cls, T, Loc, MLoc) ==
  [cls |-> cls, Ty |-> T, Loc |-> Loc, MaxLoc |-> MLoc, Kind |-> 0]

\* The constructor with the literal parsed at 32 bits instead of 64.
IntegerConstantExpr_Narrow(Loc, MaxLoc, Data) ==
  [f \in {"Num"} |-> setIntValue(APNumericStorage, APIntFromString(32, Data, 10))]
  @@ ConstantExpr("IntegerConstantExprClass", "IntegerTy", Loc, MaxLoc)

\* IntegerConstantExpr::IntegerConstantExpr
IntegerConstantExpr(Loc, MaxLoc, Data) ==
  [f \in {"Num"} |->
     setIntValue(APNumericStorage, APIntFromString(IntegerBitWidth, Data, 10))]
  @@ ConstantExpr("IntegerConstantExprClass", "IntegerTy", Loc, MaxLoc)

\* BOZConstantExpr::BOZConstantExpr: the prefix selects the kind and the
\* radix, and the digits are the text from index 2 to the last quote.
BOZRadix(c) ==
  IF c = 66 THEN 2                 \* 'B'
  ELSE IF c = 79 THEN 8            \* 'O'
  ELSE 16                          \* 'Z', 'X'

BOZKindOf(c) ==
  IF c = 66 THEN "Binary"
  ELSE IF c = 79 THEN "Octal"
  ELSE "Hexadecimal"

BOZConstantExpr(Loc, MaxLoc, Data) ==
  LET LastQuote == rfind(Data, Data[2])
      NumStr == slice(Data, 2, LastQuote)
  IN  [BOZKind |-> BOZKindOf(Data[1]),
       Num |-> setIntValue(APNumericStorage, getAsInteger(NumStr, BOZRadix(Data[1])))]
      @@ ConstantExpr("BOZConstantExprClass", "IntegerTy", Loc, MaxLoc)

\* assert(LastQuote == llvm::StringRef::npos && "Invalid BOZ constant!")
BOZAssertion(Data) == rfind(Data, Data[2]) = npos

\* LogicalConstantExpr::LogicalConstantExpr
DotTrue == <<46, 84, 82, 85, 69, 46>>     \* ".TRUE."

\* The constructor with a case-sensitive comparison.
LogicalConstantExpr_CaseSensitive(Loc, MaxLoc, Data) ==
  [f \in {"Val"} |-> Data = DotTrue]
  @@ ConstantExpr("LogicalConstantExprClass", "LogicalTy", Loc, MaxLoc)

LogicalConstantExpr(Loc, MaxLoc, Data) ==
  [f \in {"Val"} |-> compare_lower(Data, DotTrue) = 0]
  @@ ConstantExpr("LogicalConstantExprClass", "LogicalTy", Loc, MaxLoc)

\* CharacterConstantExpr::CharacterConstantExpr: Data is the new char array,
\* here its index in charBufs; CharacterData is what the constructor writes
\* into it.
CharacterData(data) == strncpy(data, Len(data)) \o <<0>>

CharacterConstantExpr(Loc, MaxLoc, buf) ==
  [f \in {"Data"} |-> buf]
  @@ ConstantExpr("CharacterConstantExprClass", "CharacterTy", Loc, MaxLoc)

\* The accessors.
getValue(E) == getIntValue(E.Num)
getBOZKind(E) == E.BOZKind
isBinaryKind(E) == E.BOZKind = "Binary"
isOctalKind(E) == E.BOZKind = "Octal"
isHexKind(E) == E.BOZKind = "Hexadecimal"
isTrue(E) == E.Val
isFalse(E) == ~E.Val
getCharValue(E) == charBufs[E.Data]

----------------------------------------------------------------------------
(* The token texts the parser hands to the literal factories.               *)

Strings(S, n) == UNION {[1..k -> S] : k \in 0..n}

Digits(ds) == [i \in 1..Len(ds) |-> 48 + ds[i]]
Rep(d, n) == [i \in 1..n |-> 48 + d]

IntegerInputs ==
  {Rep(d, n) : d \in {1, 9}, n \in 1..MaxDigits}
  \cup {Digits(<<0>>), Digits(<<0, 0, 7>>),
        Digits(<<1,2,3,4,5,6,7,8,9,0,1,2,3,4,5>>),                 \* the spec's example
        Digits(<<1,8,4,4,6,7,4,4,0,7,3,7,0,9,5,5,1,6,1,5>>),       \* 2^64 - 1
        Digits(<<1,8,4,4,6,7,4,4,0,7,3,7,0,9,5,5,1,6,1,6>>)}       \* 2^64

BOZPrefixes == {66, 79, 90, 88}          \* 'B', 'O', 'Z', 'X'
Quotes == {39, 34}                       \* the apostrophe and the double quote

BOZDigitsOf(p) ==
  IF p = 66 THEN {48, 49}                \* '0', '1'
  ELSE IF p = 79 THEN {49, 55}           \* '1', '7'
  ELSE {48, 70}                          \* '0', 'F'

\* A prefix, an opening quote, digits of the radix, and a closing quote that
\* matches the opening one, or is the other quote character, or is missing.
BOZInputs ==
  {<<66, q>> \o Digits(<<1, 0, 1, 0>>) \o <<q>> : q \in Quotes}    \* B'1010'
  \cup
  UNION {{<<p, q>> \o ds \o close :
            ds \in Strings(BOZDigitsOf(p), MaxBOZDigits),
            close \in {<<q>>, <<CHOOSE o \in Quotes : o # q>>, <<>>}} :
         p \in BOZPrefixes, q \in Quotes}

\* ".TRUE." in every letter case, its proper prefixes, its extensions by one
\* byte, ".FALSE.", and ".TRUE." with one byte replaced.
SampleBytes == {46, 84, 116, 70, 32}     \* '.', 'T', 't', 'F', ' '

LogicalInputs ==
  {[i \in 1..6 |-> IF i \in low THEN ascii_tolower(DotTrue[i]) ELSE DotTrue[i]] :
     low \in SUBSET {2, 3, 4, 5}}
  \cup {SubSeq(DotTrue, 1, k) : k \in 0..5}
  \cup {DotTrue \o <<c>> : c \in SampleBytes}
  \cup {<<c>> \o DotTrue : c \in SampleBytes}
  \cup {[DotTrue EXCEPT ![i] = c] : i \in 1..6, c \in SampleBytes}
  \cup {<<46, 70, 65, 76, 83, 69, 46>>, <<46, 102, 97, 108, 115, 101, 46>>}

\* Character literal bytes: any byte values, NUL included, of explicit length.
ByteValues == {0, 65, 255}
CharacterInputs == Strings(ByteValues, MaxChars)

Tokens ==
  {[kind |-> "integer", text |-> t] : t \in IntegerInputs}
  \cup {[kind |-> "boz", text |-> t] : t \in BOZInputs}
  \cup {[kind |-> "logical", text |-> t] : t \in LogicalInputs}
  \cup {[kind |-> "character", text |-> t] : t \in CharacterInputs}

----------------------------------------------------------------------------
(* The factories.  Each allocates its node in the context and runs the      *)
(* constructor; a failed assertion ends the compilation with no node.       *)

NoCall == [op |-> "none", Data |-> <<>>]

Result == nodes[Len(nodes)]

\* IntegerConstantExpr::Create.  llvm::APInt(64, Data, 10) asserts that the
\* width suffices for the number of digits.
IntegerConstantExprCreate(Loc, MaxLoc, Data) ==
  /\ ~aborted
  /\ call' = [op |-> "IntegerConstantExpr", Data |-> Data]
  /\ IF ~NDEBUG /\ ~SufficientBitWidth(IntegerBitWidth, Data)
       THEN aborted' = TRUE /\ UNCHANGED nodes
       ELSE /\ nodes' = Append(nodes, IntegerConstantExpr(Loc, MaxLoc, Data))
            /\ UNCHANGED aborted
  /\ UNCHANGED <<charBufs, tokenBuf, tokKind, NDEBUG, decls, arraySpecs, extvars>>

\* BOZConstantExpr::Create
BOZConstantExprCreate(Loc, MaxLoc, Data) ==
  /\ ~aborted
  /\ Len(Data) >= 2
  /\ call' = [op |-> "BOZConstantExpr", Data |-> Data]
  /\ IF ~NDEBUG /\ ~BOZAssertion(Data)
       THEN aborted' = TRUE /\ UNCHANGED nodes
       ELSE /\ nodes' = Append(nodes, BOZConstantExpr(Loc, MaxLoc, Data))
            /\ UNCHANGED aborted
  /\ UNCHANGED <<charBufs, tokenBuf, tokKind, NDEBUG, decls, arraySpecs, extvars>>

\* LogicalConstantExpr::Create
LogicalConstantExprCreate(Loc, MaxLoc, Data) ==
  /\ ~aborted
  /\ call' = [op |-> "LogicalConstantExpr", Data |-> Data]
  /\ nodes' = Append(nodes, LogicalConstantExpr(Loc, MaxLoc, Data))
  /\ UNCHANGED <<charBufs, tokenBuf, tokKind, aborted, NDEBUG, decls, arraySpecs,
       extvars>>

\* CharacterConstantExpr::Create: the bytes are copied to a new char array of
\* the context.
CharacterConstantExprCreate(Loc, MaxLoc, Data) ==
  /\ ~aborted
  /\ call' = [op |-> "CharacterConstantExpr", Data |-> Data]
  /\ charBufs' = Append(charBufs, CharacterData(Data))
  /\ nodes' = Append(nodes, CharacterConstantExpr(Loc, MaxLoc, Len(charBufs) + 1))
  /\ UNCHANGED <<tokenBuf, tokKind, aborted, NDEBUG, decls, arraySpecs, extvars>>

\* The caller's token storage is released and reused after the factory
\* returned: its bytes are no longer those of the literal.
DiscardToken ==
  /\ call.op # "none"
  /\ tokenBuf # <<>>
  /\ tokenBuf' = <<>>
  /\ UNCHANGED <<nodes, charBufs, tokKind, call, aborted, NDEBUG, decls, arraySpecs,
       extvars>>

----------------------------------------------------------------------------
(* SpecLit: one literal token, handed once to the factory of its kind.      *)

NoDecls == [d \in {} |-> FALSE]

NoRead == [kind |-> "none"]

\* The storage of a specification that has no numeric storage of its own.
IdleMem ==
  /\ Num = APNumericStorage
  /\ pValBuf = 0
  /\ wordBufs = <<>>
  /\ wildFrees = 0
  /\ stored = <<>>
  /\ readResult = NoRead

Contexts == {"C1", "C2"}

\* The arenas of a specification that builds in one context only.
IdleCtx ==
  /\ arena = [C \in Contexts |-> <<>>]
  /\ heap = <<>>

\* CharacterValueTy(nullptr, nullptr)
NullValue == [Ptr |-> 0, Len |-> 0]

NoStmt == [LHS |-> 0, RHS |-> 0]

\* The code generator before it is given a statement.
IdleCG ==
  /\ stmt = NoStmt
  /\ Dest = NullValue
  /\ Src = NullValue
  /\ EV = NullValue
  /\ emitted = <<>>
  /\ temps = <<>>
  /\ takers = <<>>

NoLocEnd == [kind |-> "none"]

IdleQuery == locEnd = NoLocEnd

\* The null pointer of a target machine.
Null == "null"

\* A pass manager pointer that is null.
NoPasses == [created |-> FALSE, passes |-> <<>>]

\* The EmitAssemblyHelper as its constructor leaves it.
EmitAssemblyHelper ==
  /\ backendAction = "none"
  /\ targetFound = FALSE
  /\ TM = Null
  /\ Diags = <<>>
  /\ PerFunctionPasses = NoPasses
  /\ PerModulePasses = NoPasses
  /\ CodeGenPasses = NoPasses
  /\ ran = <<>>

\* The backend of a specification that generates no code.
IdleBackend ==
  /\ TheModule = <<>>
  /\ VerifyModule = FALSE
  /\ EmitAssemblyHelper

IdleExt == IdleMem /\ IdleCtx /\ IdleCG /\ IdleQuery /\ IdleBackend

InitLit ==
  /\ nodes = <<>>
  /\ charBufs = <<>>
  /\ \E t \in Tokens : tokKind = t.kind /\ tokenBuf = t.text
  /\ call = NoCall
  /\ aborted = FALSE
  /\ NDEBUG \in BOOLEAN
  /\ decls = NoDecls
  /\ arraySpecs = <<>>
  /\ IdleExt

ParseInteger ==
  tokKind = "integer" /\ call = NoCall
  /\ IntegerConstantExprCreate(1, Len(tokenBuf), tokenBuf)

ParseBOZ ==
  tokKind = "boz" /\ call = NoCall
  /\ BOZConstantExprCreate(1, Len(tokenBuf), tokenBuf)

ParseLogical ==
  tokKind = "logical" /\ call = NoCall
  /\ LogicalConstantExprCreate(1, Len(tokenBuf), tokenBuf)

ParseCharacter ==
  tokKind = "character" /\ call = NoCall
  /\ CharacterConstantExprCreate(1, Len(tokenBuf), tokenBuf)

NextLit ==
  \/ ParseInteger
  \/ ParseBOZ
  \/ ParseLogical
  \/ ParseCharacter
  \/ DiscardToken

SpecLit == InitLit /\ [][NextLit]_vars

----------------------------------------------------------------------------
(* The literal constants: what the factories are said to produce.           *)

\* The number a decimal digit string denotes, in 128 bits, which no string of
\* the model overflows.
DenotedValue(str) == FromDigits(str, 1, 10, Zeros(2 * LimbsPerWord))

\* C1 as stated: for any decimal digit string, IntegerConstantExpr::Create
\* followed by getValue gives exactly the number the digits denote, 64 bits
\* wide, with no truncation, wrap-around or failure.
C1_ExactValue ==
  call.op = "IntegerConstantExpr" =>
    /\ ~aborted
    /\ getValue(Result).BitWidth = 64
    /\ getValue(Result).limbs \o Zeros(LimbsPerWord) = DenotedValue(call.Data)

\* C1 amended: construction fails exactly when assertions are compiled in and
\* the string has more than 23 digits; otherwise getValue is 64 bits wide and
\* is the denoted number modulo 2^64, so it is the exact number exactly when
\* that is below 2^64.
C1_ValueModulo ==
  call.op = "IntegerConstantExpr" =>
    /\ aborted <=> (~NDEBUG /\ Len(call.Data) > 23)
    /\ ~aborted =>
         /\ getValue(Result).BitWidth = 64
         /\ getValue(Result).limbs = SubSeq(DenotedValue(call.Data), 1, LimbsPerWord)

\* A 20-digit literal of 2^64 or more was constructed: its value wrapped.
C1_Witness ==
  /\ call.op = "IntegerConstantExpr"
  /\ ~aborted
  /\ Len(call.Data) = 20
  /\ SubSeq(DenotedValue(call.Data), LimbsPerWord + 1, 2 * LimbsPerWord)
       # Zeros(LimbsPerWord)
  /\ getValue(Result).limbs \o Zeros(LimbsPerWord) # DenotedValue(call.Data)

\* A literal whose digits stand between a pair of the same quote character.
BOZWellFormed(Data) ==
  /\ Len(Data) >= 3
  /\ Data[Len(Data)] = Data[2]
  /\ \A i \in 3..(Len(Data) - 1) : Data[i] \notin Quotes

RECURSIVE RadixValue(_, _)
RadixValue(str, radix) ==
  IF str = <<>> THEN 0
  ELSE RadixValue(SubSeq(str, 1, Len(str) - 1), radix) * radix
         + CharVal(str[Len(str)])

ToLimbs(n) == <<n % LimbBase, n \div LimbBase, 0, 0>>

\* C2: the prefix B gives kind Binary and radix 2, O gives Octal and 8, Z or
\* X gives Hexadecimal and 16, and getValue is the digits between the quotes
\* read in that radix.
C2_RadixSelection ==
  (call.op = "BOZConstantExpr" /\ BOZWellFormed(call.Data)) =>
    LET p == call.Data[1]
        digits == SubSeq(call.Data, 3, Len(call.Data) - 1)
        radix == IF p = 66 THEN 2 ELSE IF p = 79 THEN 8 ELSE 16
    IN  /\ ~aborted
        /\ isBinaryKind(Result) <=> p = 66
        /\ isOctalKind(Result) <=> p = 79
        /\ isHexKind(Result) <=> p \in {90, 88}
        /\ getValue(Result).limbs = ToLimbs(RadixValue(digits, radix))

\* C3: with assertions compiled in, the construction of a BOZ literal fails
\* its assertion if and only if the text has no closing quote that matches
\* the opening one.
C3_AssertIffUnclosed ==
  (~NDEBUG /\ call.op = "BOZConstantExpr") =>
    (aborted <=> ~BOZWellFormed(call.Data))

\* The text is ".TRUE." in some letter case: the same length, and each byte
\* the byte of ".TRUE." or its lower-case letter.
IsDotTrueInSomeCase(Data) ==
  /\ Len(Data) = 6
  /\ \A i \in 1..6 :
       \/ Data[i] = DotTrue[i]
       \/ DotTrue[i] \in 65..90 /\ Data[i] = DotTrue[i] + 32

\* C4: LogicalConstantExpr::Create gives isTrue exactly when the whole text is
\* ".TRUE." compared without regard to case; every other text gives isFalse,
\* and isTrue and isFalse are complementary.
C4_LogicalExact ==
  call.op = "LogicalConstantExpr" =>
    /\ isTrue(Result) <=> IsDotTrueInSomeCase(call.Data)
    /\ isFalse(Result) <=> ~IsDotTrueInSomeCase(call.Data)
    /\ isTrue(Result) <=> ~isFalse(Result)

\* A logical constant built from ".TRUE." in a mixed letter case is true.
C4_Witness ==
  /\ call.op = "LogicalConstantExpr"
  /\ call.Data # DotTrue
  /\ IsDotTrueInSomeCase(call.Data)
  /\ isTrue(Result)

\* C5: for every byte span of length n, getValue is a buffer whose first n
\* bytes are the input and whose byte n is NUL, whatever becomes of the
\* caller's storage afterwards.
C5_CharacterCopy ==
  call.op = "CharacterConstantExpr" =>
    getCharValue(Result) = call.Data \o <<0>>

----------------------------------------------------------------------------
(* Designators and source spans.                                            *)

\* The variable declarations a VarExpr can refer to: the length of the
\* identifier and the declared type of each.
VarDecls == {1, 2}
IdentifierLength(VD) == VD
DeclType(VD) ==
  IF VD = 1 THEN "CharacterTy"
  ELSE IF VD = 3 THEN "CharacterLen2Ty"
  ELSE IF VD = 4 THEN "IntegerArrayTy"
  ELSE "IntegerTy"

\* The source locations the parser passes to the factories.
Locs == {1, 2}

\* VarExpr::VarExpr
VarExpr(Loc, Var) ==
  [cls |-> "VarExprClass", Ty |-> DeclType(Var), Loc |-> Loc, Variable |-> Var]

\* SubstringExpr::SubstringExpr, with DesignatorExpr holding the target.
SubstringExpr(Loc, E, Start, End) ==
  [cls |-> "SubstringExprClass", Ty |-> "CharacterTy", Loc |-> Loc,
   Target |-> E, StartingPoint |-> Start, EndPoint |-> End]

\* QualType(): the type slot that holds no type.
NullTy == "NullTy"

\* The array types, and Type::asArrayType: the type itself when it is an array
\* type, no type otherwise.
ArrayTypes == {"IntegerArrayTy"}
NoArrayType == "nullptr"
asArrayType(T) == IF T \in ArrayTypes THEN T ELSE NoArrayType

\* ArrayType::getElementType
getElementType(A) == CASE A = "IntegerArrayTy" -> "IntegerTy"

\* UnaryExpr::Operator and BinaryExpr::Operator
UnaryOperator == {"None", "Not", "Plus", "Minus", "Defined"}
LogicalOperators == {"Eqv", "Neqv", "Or", "And"}
RelationalOperators ==
  {"Equal", "NotEqual", "LessThan", "LessThanEqual", "GreaterThan",
   "GreaterThanEqual"}
BinaryOperator ==
  {"None"} \cup LogicalOperators \cup {"Defined"} \cup RelationalOperators
    \cup {"Concat", "Plus", "Minus", "Multiply", "Divide", "Power"}

\* UnaryExpr::UnaryExpr
UnaryExpr(ET, T, loc, op, e) ==
  [cls |-> ET, Ty |-> T, Loc |-> loc, Op |-> op, E |-> e]

\* DefinedUnaryOperatorExpr::DefinedUnaryOperatorExpr
DefinedUnaryOperatorExpr(Loc, E, IDInfo) ==
  [II |-> IDInfo] @@
  UnaryExpr("DefinedUnaryOperatorExprClass", nodes[E].Ty, Loc, "Defined", E)

\* BinaryExpr::BinaryExpr
BinaryExpr(ET, T, loc, op, lhs, rhs) ==
  [cls |-> ET, Ty |-> T, Loc |-> loc, Op |-> op, LHS |-> lhs, RHS |-> rhs]

\* DefinedOperatorBinaryExpr::DefinedOperatorBinaryExpr: the type is left to
\* be calculated ("FIXME: The type here needs to be calculated.").
DefinedBinaryOperatorExpr(loc, lhs, rhs, ii) ==
  [II |-> ii] @@
  BinaryExpr("DefinedBinaryOperatorExprClass", NullTy, loc, "Defined", lhs, rhs)

\* ArrayElementExpr::ArrayElementExpr, with MultiArgumentExpr holding the
\* subscripts.
ArrayElementExpr(Loc, E, Subs) ==
  [cls |-> "ArrayElementExprClass",
   Ty |-> getElementType(asArrayType(nodes[E].Ty)),
   Loc |-> Loc, Target |-> E, Arguments |-> Subs]

\* ConstantExpr::classof
IsConstantExpr(E) ==
  E.cls \in {"IntegerConstantExprClass", "RealConstantExprClass",
             "ComplexConstantExprClass", "CharacterConstantExprClass",
             "BOZConstantExprClass", "LogicalConstantExprClass"}

\* The concrete expression classes and the tag each one's classof tests.
ExprClassOf ==
  [IntegerConstantExpr |-> "IntegerConstantExprClass",
   RealConstantExpr |-> "RealConstantExprClass",
   ComplexConstantExpr |-> "ComplexConstantExprClass",
   CharacterConstantExpr |-> "CharacterConstantExprClass",
   BOZConstantExpr |-> "BOZConstantExprClass",
   LogicalConstantExpr |-> "LogicalConstantExprClass",
   SubstringExpr |-> "SubstringExprClass",
   ArrayElementExpr |-> "ArrayElementExprClass",
   VarExpr |-> "VarExprClass",
   UnaryExpr |-> "UnaryExprClass",
   DefinedUnaryOperatorExpr |-> "DefinedUnaryOperatorExprClass",
   BinaryExpr |-> "BinaryExprClass",
   DefinedBinaryOperatorExpr |-> "DefinedBinaryOperatorExprClass"]

ConcreteClasses == DOMAIN ExprClassOf

ConstantClasses ==
  {"IntegerConstantExpr", "RealConstantExpr", "ComplexConstantExpr",
   "CharacterConstantExpr", "BOZConstantExpr", "LogicalConstantExpr"}

\* classof with the built-in operator classes accepting their user-defined
\* subclasses.
classof_Subclasses(V, E) ==
  \/ E.cls = ExprClassOf[V]
  \/ V = "UnaryExpr" /\ E.cls = "DefinedUnaryOperatorExprClass"
  \/ V = "BinaryExpr" /\ E.cls = "DefinedBinaryOperatorExprClass"

\* V::classof(const Expr *E) of a concrete class V: the tag is V's own.
classof(V, E) == E.cls = ExprClassOf[V]

\* The sub-expressions a node points to.
Children(E) ==
  (IF E.cls = "SubstringExprClass"
     THEN {E.Target, E.StartingPoint, E.EndPoint}
   ELSE IF IsConstantExpr(E) THEN {E.Kind}
   ELSE IF E.cls \in {"UnaryExprClass", "DefinedUnaryOperatorExprClass"}
     THEN {E.E}
   ELSE IF E.cls \in {"BinaryExprClass", "DefinedBinaryOperatorExprClass"}
     THEN {E.LHS, E.RHS}
   ELSE IF E.cls = "ArrayElementExprClass"
     THEN {E.Target} \cup {E.Arguments[k] : k \in 1..Len(E.Arguments)}
   ELSE IF E.cls \in {"CallExprClass", "IntrinsicCallExprClass",
                      "ArrayConstructorExprClass"}
     THEN {E.Arguments[k] : k \in 1..Len(E.Arguments)}
   ELSE {}) \ {0}

\* A node no other node points to yet: the parser hands each node to one
\* parent.
IsFree(i) == \A j \in 1..Len(nodes) : i \notin Children(nodes[j])

RECURSIVE getLocStart(_)
RECURSIVE getLocEnd(_)

\* Expr::getLocation
getLocation(E) == E.Loc

\* DesignatorExpr::getLocStart
DesignatorExpr_getLocStart(E) == getLocStart(E.Target)

\* The end of span with the kind selector's end preferred to MaxLoc.
ConstantExpr_getLocEnd_Selector(E) ==
  IF E.Kind # 0 THEN getLocEnd(E.Kind) ELSE E.MaxLoc

\* ConstantExpr::getLocEnd
ConstantExpr_getLocEnd(E) == E.MaxLoc

\* The end of span with the start bound never consulted.
SubstringExpr_getLocEnd_NoStart(E) ==
  IF E.EndPoint # 0 THEN getLocEnd(E.EndPoint)
  ELSE getLocation(E)

\* SubstringExpr::getLocEnd
SubstringExpr_getLocEnd(E) ==
  IF E.EndPoint # 0 THEN getLocEnd(E.EndPoint)
  ELSE IF E.StartingPoint # 0 THEN getLocEnd(E.StartingPoint)
  ELSE getLocation(E)

\* VarExpr::getLocEnd: the location advanced by the identifier's length.
VarExpr_getLocEnd(E) == getLocation(E) + IdentifierLength(E.Variable)

\* What stands for the location read through ArrayRef::back() of an empty
\* list: there is no last element, and the read is undefined.
BackOfEmpty == 0 - 1

\* getArguments().back()->getLocEnd()
back_getLocEnd(Arguments) ==
  IF Arguments = <<>> THEN BackOfEmpty
  ELSE getLocEnd(Arguments[Len(Arguments)])

\* ArrayElementExpr::getLocEnd
ArrayElementExpr_getLocEnd(E) == back_getLocEnd(E.Arguments)

\* CallExpr::getLocEnd
CallExpr_getLocEnd(E) == back_getLocEnd(E.Arguments)

\* IntrinsicCallExpr::getLocEnd
IntrinsicCallExpr_getLocEnd(E) == back_getLocEnd(E.Arguments)

\* ArrayConstructorExpr::getLocEnd
ArrayConstructorExpr_getLocEnd(E) ==
  IF E.Arguments = <<>> THEN getLocation(E)
  ELSE getLocEnd(E.Arguments[Len(E.Arguments)])

\* UnaryExpr::getLocEnd
UnaryExpr_getLocEnd(E) == getLocEnd(E.E)

\* The start of span at the operator's own location.
BinaryExpr_getLocStart_Own(E) == getLocation(E)

\* BinaryExpr::getLocStart
BinaryExpr_getLocStart(E) == getLocStart(E.LHS)

\* BinaryExpr::getLocEnd
BinaryExpr_getLocEnd(E) == getLocEnd(E.RHS)

\* The virtual getLocStart: the node's location unless the class overrides it.
getLocStart(i) ==
  LET E == nodes[i]
  IN  IF E.cls \in {"SubstringExprClass", "ArrayElementExprClass"}
        THEN DesignatorExpr_getLocStart(E)
      ELSE IF E.cls \in {"BinaryExprClass", "DefinedBinaryOperatorExprClass"}
        THEN BinaryExpr_getLocStart(E)
      ELSE getLocation(E)

\* The virtual getLocEnd.
getLocEnd(i) ==
  LET E == nodes[i]
  IN  IF IsConstantExpr(E) THEN ConstantExpr_getLocEnd(E)
      ELSE IF E.cls = "SubstringExprClass" THEN SubstringExpr_getLocEnd(E)
      ELSE IF E.cls = "VarExprClass" THEN VarExpr_getLocEnd(E)
      ELSE IF E.cls = "ArrayElementExprClass" THEN ArrayElementExpr_getLocEnd(E)
      ELSE IF E.cls = "CallExprClass" THEN CallExpr_getLocEnd(E)
      ELSE IF E.cls = "IntrinsicCallExprClass" THEN IntrinsicCallExpr_getLocEnd(E)
      ELSE IF E.cls = "ArrayConstructorExprClass"
        THEN ArrayConstructorExpr_getLocEnd(E)
      ELSE IF E.cls \in {"UnaryExprClass", "DefinedUnaryOperatorExprClass"}
        THEN UnaryExpr_getLocEnd(E)
      ELSE IF E.cls \in {"BinaryExprClass", "DefinedBinaryOperatorExprClass"}
        THEN BinaryExpr_getLocEnd(E)
      ELSE getLocation(E)

\* VarDecl::MarkUsedAsVariable: the declaration records that it is used as a
\* variable.
MarkUsedAsVariable(VD, Loc) == [decls EXCEPT ![VD] = TRUE]

\* The factory without the marking of the declaration.
VarExprCreate_Unmarked(Loc, VD) ==
  /\ ~aborted
  /\ nodes' = Append(nodes, VarExpr(Loc, VD))
  /\ UNCHANGED <<charBufs, tokenBuf, tokKind, call, aborted, NDEBUG, decls, arraySpecs,
       extvars>>

\* VarExpr::Create: the declaration is marked used as a variable.
VarExprCreate(Loc, VD) ==
  /\ ~aborted
  /\ decls' = MarkUsedAsVariable(VD, Loc)
  /\ nodes' = Append(nodes, VarExpr(Loc, VD))
  /\ UNCHANGED <<charBufs, tokenBuf, tokKind, call, aborted, NDEBUG, arraySpecs,
       extvars>>

\* SubstringExpr::Create
SubstringExprCreate(Loc, Target, StartingPoint, EndPoint) ==
  /\ ~aborted
  /\ nodes' = Append(nodes, SubstringExpr(Loc, Target, StartingPoint, EndPoint))
  /\ UNCHANGED <<charBufs, tokenBuf, tokKind, call, aborted, NDEBUG, decls, arraySpecs,
       extvars>>

\* setKindSelector with the selector's class tag written over the constant's.
setKindSelector_Retag(E, K) ==
  /\ ~aborted
  /\ nodes' = [nodes EXCEPT ![E].Kind = K, ![E].cls = nodes[K].cls]
  /\ UNCHANGED <<charBufs, tokenBuf, tokKind, call, aborted, NDEBUG, decls, arraySpecs,
       extvars>>

\* ConstantExpr::setKindSelector
setKindSelector(E, K) ==
  /\ ~aborted
  /\ nodes' = [nodes EXCEPT ![E].Kind = K]
  /\ UNCHANGED <<charBufs, tokenBuf, tokKind, call, aborted, NDEBUG, decls, arraySpecs,
       extvars>>

\* Expr::setType with the class tag rewritten to the tag of a built-in unary.
setType_Retag(E, T) ==
  /\ ~aborted
  /\ nodes' = [nodes EXCEPT ![E].Ty = T, ![E].cls = "UnaryExprClass"]
  /\ UNCHANGED <<charBufs, tokenBuf, tokKind, call, aborted, NDEBUG, decls, arraySpecs,
       extvars>>

\* Expr::setType
setType(E, T) ==
  /\ ~aborted
  /\ nodes' = [nodes EXCEPT ![E].Ty = T]
  /\ UNCHANGED <<charBufs, tokenBuf, tokKind, call, aborted, NDEBUG, decls, arraySpecs,
       extvars>>

\* The factory with the operand's type for every operator.
UnaryExprCreate_OperandType(Loc, Op, E) ==
  /\ ~aborted
  /\ nodes' = Append(nodes, UnaryExpr("UnaryExprClass", nodes[E].Ty, Loc, Op, E))
  /\ UNCHANGED <<charBufs, tokenBuf, tokKind, call, aborted, NDEBUG, decls, arraySpecs,
       extvars>>

\* UnaryExpr::Create
UnaryExprCreate(Loc, Op, E) ==
  /\ ~aborted
  /\ nodes' = Append(nodes,
       UnaryExpr("UnaryExprClass",
                 IF Op # "Not" THEN nodes[E].Ty ELSE "LogicalTy",
                 Loc, Op, E))
  /\ UNCHANGED <<charBufs, tokenBuf, tokKind, call, aborted, NDEBUG, decls, arraySpecs,
       extvars>>

\* DefinedUnaryOperatorExpr::Create
DefinedUnaryOperatorExprCreate(Loc, E, IDInfo) ==
  /\ ~aborted
  /\ nodes' = Append(nodes, DefinedUnaryOperatorExpr(Loc, E, IDInfo))
  /\ UNCHANGED <<charBufs, tokenBuf, tokKind, call, aborted, NDEBUG, decls, arraySpecs,
       extvars>>

\* BinaryExpr::Create: the type is the one the caller passes.
BinaryExprCreate(Loc, Op, Type, LHS, RHS) ==
  /\ ~aborted
  /\ nodes' = Append(nodes, BinaryExpr("BinaryExprClass", Type, Loc, Op, LHS, RHS))
  /\ UNCHANGED <<charBufs, tokenBuf, tokKind, call, aborted, NDEBUG, decls, arraySpecs,
       extvars>>

\* The factory with the type taken from the left operand.
DefinedBinaryOperatorExprCreate_LeftType(Loc, LHS, RHS, IDInfo) ==
  /\ ~aborted
  /\ nodes' = Append(nodes,
       [DefinedBinaryOperatorExpr(Loc, LHS, RHS, IDInfo)
          EXCEPT !.Ty = nodes[LHS].Ty])
  /\ UNCHANGED <<charBufs, tokenBuf, tokKind, call, aborted, NDEBUG, decls, arraySpecs,
       extvars>>

\* DefinedBinaryOperatorExpr::Create
DefinedBinaryOperatorExprCreate(Loc, LHS, RHS, IDInfo) ==
  /\ ~aborted
  /\ nodes' = Append(nodes, DefinedBinaryOperatorExpr(Loc, LHS, RHS, IDInfo))
  /\ UNCHANGED <<charBufs, tokenBuf, tokKind, call, aborted, NDEBUG, decls, arraySpecs,
       extvars>>

\* What a read through the null pointer can leave in the type slot when it
\* does not trap.
UndefinedReads == {"IntegerTy", NullTy}

\* ArrayElementExpr::Create.  E->getType()->asArrayType()->getElementType() is
\* evaluated unchecked: when the target's type is no array type (or no type
\* at all) a null pointer is dereferenced, which is undefined behaviour: the
\* process traps, or the read yields some value and the node is built.
ArrayElementExprCreate(Loc, Target, Subscripts) ==
  /\ ~aborted
  /\ IF asArrayType(nodes[Target].Ty) # NoArrayType
       THEN /\ nodes' = Append(nodes, ArrayElementExpr(Loc, Target, Subscripts))
            /\ UNCHANGED aborted
       ELSE \/ /\ aborted' = TRUE
               /\ UNCHANGED nodes
            \/ /\ \E T \in UndefinedReads :
                    nodes' = Append(nodes,
                      [cls |-> "ArrayElementExprClass", Ty |-> T, Loc |-> Loc,
                       Target |-> Target, Arguments |-> Subscripts])
               /\ UNCHANGED aborted
  /\ UNCHANGED <<charBufs, tokenBuf, tokKind, call, NDEBUG, decls, arraySpecs, extvars>>

----------------------------------------------------------------------------
(* SpecSpan: the parser builds designators and constants bottom-up, each    *)
(* operand an existing node that has no parent yet; the operands of a       *)
(* substring were built in source order, and a kind selector is a literal   *)
(* or a name built right after its constant.                                *)

InitSpan ==
  /\ nodes = <<>>
  /\ charBufs = <<>>
  /\ tokenBuf = <<49>>                   \* the text "1"
  /\ tokKind = "integer"
  /\ call = NoCall
  /\ aborted = FALSE
  /\ NDEBUG = FALSE
  /\ decls = [d \in VarDecls |-> FALSE]
  /\ arraySpecs = <<>>
  /\ IdleExt

FreeNodes == {i \in 1..Len(nodes) : IsFree(i)}

BuildVar ==
  /\ Len(nodes) < MaxNodes
  /\ \E Loc \in Locs, VD \in VarDecls : VarExprCreate(Loc, VD)

BuildConstant ==
  /\ Len(nodes) < MaxNodes
  /\ \E Loc \in Locs, MaxLoc \in Locs :
       Loc <= MaxLoc /\ IntegerConstantExprCreate(Loc, MaxLoc, tokenBuf)

BuildSubstring ==
  /\ Len(nodes) < MaxNodes
  /\ \E Loc \in Locs, T \in FreeNodes,
        S \in FreeNodes \cup {0}, E \in FreeNodes \cup {0} :
       /\ (S # 0 => T < S) /\ (E # 0 => T < E) /\ (S # 0 /\ E # 0 => S < E)
       /\ SubstringExprCreate(Loc, T, S, E)

\* The parser builds the kind selector right after its constant and attaches
\* it at once.
AttachKindSelector ==
  \E E \in {Len(nodes) - 1}, K \in {Len(nodes)} :
    /\ E >= 1
    /\ IsConstantExpr(nodes[E])
    /\ nodes[E].Kind = 0
    /\ IsFree(E) /\ IsFree(K)
    /\ Children(nodes[K]) = {}
    /\ setKindSelector(E, K)

NextSpan ==
  \/ BuildVar
  \/ BuildConstant
  \/ BuildSubstring
  \/ AttachKindSelector

SpecSpan == InitSpan /\ [][NextSpan]_vars

----------------------------------------------------------------------------
(* Source spans: what the end-of-span queries are said to return.           *)

Substrings == {i \in 1..Len(nodes) : nodes[i].cls = "SubstringExprClass"}
Constants == {i \in 1..Len(nodes) : IsConstantExpr(nodes[i])}

\* C6: a substring's end of span is the end bound's end when there is an end
\* bound, else the start bound's end when there is a start bound, else the
\* target's end.
C6_EndPreference ==
  \A i \in Substrings :
    getLocEnd(i) =
      IF nodes[i].EndPoint # 0 THEN getLocEnd(nodes[i].EndPoint)
      ELSE IF nodes[i].StartingPoint # 0 THEN getLocEnd(nodes[i].StartingPoint)
      ELSE getLocEnd(nodes[i].Target)

\* C7 as stated: with a start bound and no end bound, the end of span is the
\* target's end.
C7_StartOnlyTargetEnd ==
  \A i \in Substrings :
    (nodes[i].StartingPoint # 0 /\ nodes[i].EndPoint = 0) =>
      getLocEnd(i) = getLocEnd(nodes[i].Target)

\* C7 amended: with a start bound and no end bound, the end of span is the
\* start bound's end.
C7_StartOnlyStartEnd ==
  \A i \in Substrings :
    (nodes[i].StartingPoint # 0 /\ nodes[i].EndPoint = 0) =>
      getLocEnd(i) = getLocEnd(nodes[i].StartingPoint)

\* A substring with only a start bound, whose start bound, target and own
\* location end at three different places.
C7_Witness ==
  \E i \in Substrings :
    /\ nodes[i].StartingPoint # 0 /\ nodes[i].EndPoint = 0
    /\ getLocEnd(nodes[i].StartingPoint) # getLocEnd(nodes[i].Target)
    /\ getLocEnd(nodes[i].StartingPoint) # getLocation(nodes[i])
    /\ getLocEnd(i) = getLocEnd(nodes[i].StartingPoint)

\* C8: a substring with neither bound has the span of its target: it starts
\* where the target starts and ends where the target ends.
C8_NoBoundsTargetSpan ==
  \A i \in Substrings :
    (nodes[i].StartingPoint = 0 /\ nodes[i].EndPoint = 0) =>
      /\ getLocStart(i) = getLocStart(nodes[i].Target)
      /\ getLocEnd(i) = getLocEnd(nodes[i].Target)

\* C9 as stated: a constant's end of span is its kind selector's end when a
\* kind selector is attached, and its MaxLoc when none is.
C9_MaxLocOrSelector ==
  \A i \in Constants :
    getLocEnd(i) =
      IF nodes[i].Kind # 0 THEN getLocEnd(nodes[i].Kind) ELSE nodes[i].MaxLoc

\* C9 amended: a constant's end of span is the MaxLoc given at construction,
\* whether or not a kind selector is attached.
C9_MaxLocAlways ==
  \A i \in Constants : getLocEnd(i) = nodes[i].MaxLoc

\* A constant with a kind selector attached that ends elsewhere than the
\* constant's MaxLoc.
C9_Witness ==
  \E i \in Constants :
    /\ nodes[i].Kind # 0
    /\ getLocEnd(nodes[i].Kind) # nodes[i].MaxLoc
    /\ getLocEnd(i) = nodes[i].MaxLoc

----------------------------------------------------------------------------
(* Array specifications.  An entry of arraySpecs is the object together     *)
(* with the name of the class whose Create built it.                        *)

ArraySpecKind ==
  {"k_ExplicitShape", "k_AssumedShape", "k_DeferredShape", "k_AssumedSize",
   "k_ImpliedShape"}

\* The expressions the parser passes as bounds.
BoundExprs == {1, 2}

\* ArraySpec::ArraySpec
ArraySpec(K) == [Kind |-> K]

\* ArraySpec::getKind
getKind(S) == S.Kind

\* The one-bound constructor with the bound stored as the lower bound.
ExplicitShapeSpecUB_AsLower(UB) ==
  [LowerBound |-> UB, UpperBound |-> 0] @@ ArraySpec("k_ExplicitShape")

\* ExplicitShapeSpec::ExplicitShapeSpec(Expr *UB)
ExplicitShapeSpecUB(UB) ==
  [LowerBound |-> 0, UpperBound |-> UB] @@ ArraySpec("k_ExplicitShape")

\* ExplicitShapeSpec::ExplicitShapeSpec(Expr *LB, Expr *UB)
ExplicitShapeSpecLBUB(LB, UB) ==
  [LowerBound |-> LB, UpperBound |-> UB] @@ ArraySpec("k_ExplicitShape")

\* AssumedShapeSpec::AssumedShapeSpec()
AssumedShapeSpec0 == [f \in {"LowerBound"} |-> 0] @@ ArraySpec("k_AssumedShape")

\* AssumedShapeSpec::AssumedShapeSpec(Expr *LB)
AssumedShapeSpecLB(LB) ==
  [f \in {"LowerBound"} |-> LB] @@ ArraySpec("k_AssumedShape")

\* DeferredShapeSpec::DeferredShapeSpec(): the class has no bound member.
DeferredShapeSpec0 == ArraySpec("k_DeferredShape")

\* The constructor with the kind of the assumed-shape class.
ImpliedShapeSpecL_AssumedKind(L) ==
  [Loc |-> L, LowerBound |-> 0] @@ ArraySpec("k_AssumedShape")

\* ImpliedShapeSpec::ImpliedShapeSpec(SourceLocation L)
ImpliedShapeSpecL(L) ==
  [Loc |-> L, LowerBound |-> 0] @@ ArraySpec("k_ImpliedShape")

\* ImpliedShapeSpec::ImpliedShapeSpec(SourceLocation L, Expr *LB)
ImpliedShapeSpecLLB(L, LB) ==
  [Loc |-> L, LowerBound |-> LB] @@ ArraySpec("k_ImpliedShape")

\* new (C) T(...): the object is allocated in the context.
NewArraySpec(class, S) ==
  /\ ~aborted
  /\ arraySpecs' = Append(arraySpecs, [by |-> class, spec |-> S])
  /\ UNCHANGED <<nodes, charBufs, tokenBuf, tokKind, call, aborted, NDEBUG, decls,
       extvars>>

\* ExplicitShapeSpec::Create(C, UB)
ExplicitShapeSpecCreateUB(UB) ==
  NewArraySpec("ExplicitShapeSpec", ExplicitShapeSpecUB(UB))

\* ExplicitShapeSpec::Create(C, LB, UB)
ExplicitShapeSpecCreateLBUB(LB, UB) ==
  NewArraySpec("ExplicitShapeSpec", ExplicitShapeSpecLBUB(LB, UB))

\* AssumedShapeSpec::Create(C)
AssumedShapeSpecCreate ==
  NewArraySpec("AssumedShapeSpec", AssumedShapeSpec0)

\* AssumedShapeSpec::Create(C, LB)
AssumedShapeSpecCreateLB(LB) ==
  NewArraySpec("AssumedShapeSpec", AssumedShapeSpecLB(LB))

\* DeferredShapeSpec::Create(C)
DeferredShapeSpecCreate ==
  NewArraySpec("DeferredShapeSpec", DeferredShapeSpec0)

\* ImpliedShapeSpec::Create(C, Loc)
ImpliedShapeSpecCreateL(Loc) ==
  NewArraySpec("ImpliedShapeSpec", ImpliedShapeSpecL(Loc))

\* ImpliedShapeSpec::Create(C, Loc, LB)
ImpliedShapeSpecCreateLLB(Loc, LB) ==
  NewArraySpec("ImpliedShapeSpec", ImpliedShapeSpecLLB(Loc, LB))

\* AssumedSizeSpec declares no constructor and no Create ("FIXME: Finish"):
\* no action builds one.

----------------------------------------------------------------------------
(* SpecShape: the parser builds array specifications for declarations.      *)

InitShape ==
  /\ nodes = <<>>
  /\ charBufs = <<>>
  /\ tokenBuf = <<>>
  /\ tokKind = "none"
  /\ call = NoCall
  /\ aborted = FALSE
  /\ NDEBUG = FALSE
  /\ decls = NoDecls
  /\ arraySpecs = <<>>
  /\ IdleExt

BuildExplicitShape ==
  Len(arraySpecs) < MaxSpecs /\ \E UB \in BoundExprs : ExplicitShapeSpecCreateUB(UB)

BuildExplicitShapeLower ==
  Len(arraySpecs) < MaxSpecs
  /\ \E LB \in BoundExprs, UB \in BoundExprs : ExplicitShapeSpecCreateLBUB(LB, UB)

BuildAssumedShape ==
  Len(arraySpecs) < MaxSpecs /\ AssumedShapeSpecCreate

BuildAssumedShapeLower ==
  Len(arraySpecs) < MaxSpecs /\ \E LB \in BoundExprs : AssumedShapeSpecCreateLB(LB)

BuildDeferredShape ==
  Len(arraySpecs) < MaxSpecs /\ DeferredShapeSpecCreate

BuildImpliedShape ==
  Len(arraySpecs) < MaxSpecs /\ \E L \in Locs : ImpliedShapeSpecCreateL(L)

BuildImpliedShapeLower ==
  Len(arraySpecs) < MaxSpecs
  /\ \E L \in Locs, LB \in BoundExprs : ImpliedShapeSpecCreateLLB(L, LB)

NextShape ==
  \/ BuildExplicitShape
  \/ BuildExplicitShapeLower
  \/ BuildAssumedShape
  \/ BuildAssumedShapeLower
  \/ BuildDeferredShape
  \/ BuildImpliedShape
  \/ BuildImpliedShapeLower

SpecShape == InitShape /\ [][NextShape]_vars

----------------------------------------------------------------------------
(* Array specifications: the kind round trip.                               *)

\* The kind each class stands for.
KindOfClass(class) ==
  CASE class = "ExplicitShapeSpec" -> "k_ExplicitShape"
    [] class = "AssumedShapeSpec" -> "k_AssumedShape"
    [] class = "DeferredShapeSpec" -> "k_DeferredShape"
    [] class = "AssumedSizeSpec" -> "k_AssumedSize"
    [] class = "ImpliedShapeSpec" -> "k_ImpliedShape"

\* Some factory call builds, in this state, an array spec of kind k.
CanBuild(k) ==
  ENABLED (NextShape /\ getKind(arraySpecs'[Len(arraySpecs')].spec) = k)

\* C10 as stated: each of the five kinds can be built through its own factory
\* and getKind gives the kind back; a deferred shape exposes no bound.
C10_FiveKinds ==
  /\ Len(arraySpecs) < MaxSpecs => \A k \in ArraySpecKind : CanBuild(k)
  /\ \A i \in 1..Len(arraySpecs) :
       /\ getKind(arraySpecs[i].spec) = KindOfClass(arraySpecs[i].by)
       /\ arraySpecs[i].by = "DeferredShapeSpec" =>
            DOMAIN arraySpecs[i].spec = {"Kind"}

\* C10 amended: each of the four kinds explicit, assumed, deferred and implied
\* can be built through its own factory and getKind gives the kind back; no
\* factory builds an assumed-size spec; a deferred shape exposes no bound.
C10_FourKinds ==
  /\ Len(arraySpecs) < MaxSpecs =>
       /\ \A k \in ArraySpecKind \ {"k_AssumedSize"} : CanBuild(k)
       /\ ~CanBuild("k_AssumedSize")
  /\ \A i \in 1..Len(arraySpecs) :
       /\ getKind(arraySpecs[i].spec) = KindOfClass(arraySpecs[i].by)
       /\ arraySpecs[i].by = "DeferredShapeSpec" =>
            DOMAIN arraySpecs[i].spec = {"Kind"}

\* A deferred-shape and an implied-shape spec have been built.
C10_Witness ==
  /\ \E i \in 1..Len(arraySpecs) :
       /\ arraySpecs[i].by = "DeferredShapeSpec"
       /\ getKind(arraySpecs[i].spec) = "k_DeferredShape"
  /\ \E i \in 1..Len(arraySpecs) :
       /\ arraySpecs[i].by = "ImpliedShapeSpec"
       /\ getKind(arraySpecs[i].spec) = "k_ImpliedShape"

----------------------------------------------------------------------------
(* Array specifications: the bounds each kind carries.                      *)

\* The bound fields of an array spec that hold an expression.
PresentBounds(S) ==
  {f \in DOMAIN S \cap {"LowerBound", "UpperBound"} : S[f] # 0}

\* The array spec a factory call has just returned.
NewSpec == arraySpecs'[Len(arraySpecs')].spec

\* The set of present bounds is one legal for the kind.
LegalBounds(S) ==
  CASE getKind(S) = "k_ExplicitShape" ->
         PresentBounds(S) \in {{"UpperBound"}, {"LowerBound", "UpperBound"}}
    [] getKind(S) \in {"k_AssumedShape", "k_ImpliedShape"} ->
         PresentBounds(S) \subseteq {"LowerBound"}
    [] getKind(S) = "k_DeferredShape" -> PresentBounds(S) = {}
    [] OTHER -> FALSE

----------------------------------------------------------------------------
(* SpecOp: the parser builds operands and operators bottom-up, each operand *)
(* an existing node that has no parent yet, in source order; semantic       *)
(* analysis assigns types to the nodes built so far.                        *)

MaxOpNodes == 3

\* The names of user-defined operators.
Identifiers == {"myop"}

\* The locations of the operator tokens.
OpLocs == {2}

\* The types semantic analysis assigns.
ResolvedTypes == {"LogicalTy", "IntegerArrayTy"}

InitOp ==
  /\ nodes = <<>>
  /\ charBufs = <<>>
  /\ tokenBuf = DotTrue
  /\ tokKind = "logical"
  /\ call = NoCall
  /\ aborted = FALSE
  /\ NDEBUG = FALSE
  /\ decls = [d \in VarDecls |-> FALSE]
  /\ arraySpecs = <<>>
  /\ IdleExt

OpVar ==
  /\ Len(nodes) < MaxOpNodes
  /\ \E VD \in VarDecls : VarExprCreate(1, VD)

OpLogicalConstant ==
  /\ Len(nodes) < MaxOpNodes
  /\ LogicalConstantExprCreate(1, Len(tokenBuf), tokenBuf)

OpUnary ==
  /\ Len(nodes) < MaxOpNodes
  /\ \E Loc \in OpLocs, Op \in UnaryOperator, E \in FreeNodes :
       UnaryExprCreate(Loc, Op, E)

OpDefinedUnary ==
  /\ Len(nodes) < MaxOpNodes
  /\ \E Loc \in OpLocs, E \in FreeNodes, II \in Identifiers :
       DefinedUnaryOperatorExprCreate(Loc, E, II)

OpBinary ==
  /\ Len(nodes) < MaxOpNodes
  /\ \E Loc \in OpLocs, LHS \in FreeNodes, RHS \in FreeNodes :
       LHS < RHS /\ BinaryExprCreate(Loc, "Plus", nodes[LHS].Ty, LHS, RHS)

OpDefinedBinary ==
  /\ Len(nodes) < MaxOpNodes
  /\ \E Loc \in OpLocs, LHS \in FreeNodes, RHS \in FreeNodes, II \in Identifiers :
       LHS < RHS /\ DefinedBinaryOperatorExprCreate(Loc, LHS, RHS, II)

OpArrayElement ==
  /\ Len(nodes) < MaxOpNodes
  /\ \E Loc \in OpLocs, Target \in FreeNodes, Sub \in FreeNodes :
       Target < Sub /\ ArrayElementExprCreate(Loc, Target, <<Sub>>)

OpSetType ==
  \E E \in 1..Len(nodes), T \in ResolvedTypes : setType(E, T)

NextOp ==
  \/ OpVar
  \/ OpLogicalConstant
  \/ OpUnary
  \/ OpDefinedUnary
  \/ OpBinary
  \/ OpDefinedBinary
  \/ OpArrayElement
  \/ OpSetType
  \/ AttachKindSelector

SpecOp == InitOp /\ [][NextOp]_vars

----------------------------------------------------------------------------
(* Operators: result types, class tags and type assignment.                 *)

\* A factory call has just returned NewNode.
Appended == Len(nodes') = Len(nodes) + 1
NewNode == nodes'[Len(nodes')]

UnaryNodes == {i \in 1..Len(nodes) : nodes[i].cls = "UnaryExprClass"}

\* C12: a node UnaryExpr::Create returns has the type its operand has at the
\* construction when the operator is not Not, and the logical type when the
\* operator is Not, whatever the operand's type.
C12_UnaryType ==
  [][(Appended /\ NewNode.cls = "UnaryExprClass") =>
       NewNode.Ty = IF NewNode.Op = "Not" THEN "LogicalTy"
                    ELSE nodes[NewNode.E].Ty]_vars

\* A Not over an integer operand has been built, and it is logical.
C12_Witness ==
  \E i \in UnaryNodes :
    /\ nodes[i].Op = "Not" /\ nodes[nodes[i].E].Ty = "IntegerTy"
    /\ nodes[i].Ty = "LogicalTy"

DefinedBinaryNodes ==
  {i \in 1..Len(nodes) : nodes[i].cls = "DefinedBinaryOperatorExprClass"}

\* C14: a node DefinedBinaryOperatorExpr::Create returns has no type and the
\* operator Defined, whatever its operands; its type slot stays empty in
\* every step that is not a setType call on the node.
C14_DefinedBinaryUntyped ==
  /\ [][(Appended /\ NewNode.cls = "DefinedBinaryOperatorExprClass") =>
          NewNode.Ty = NullTy /\ NewNode.Op = "Defined"]_vars
  /\ [][\A i \in DefinedBinaryNodes :
          (nodes[i].Ty = NullTy /\ nodes'[i].Ty # NullTy) =>
            \E T \in ResolvedTypes : setType(i, T)]_vars

\* A user-defined binary operator over two typed operands has no type, and
\* another one has been given its type by setType.
C14_Witness ==
  /\ \E i \in DefinedBinaryNodes :
       /\ nodes[i].Ty = NullTy
       /\ nodes[nodes[i].LHS].Ty # NullTy /\ nodes[nodes[i].RHS].Ty # NullTy
  /\ Len(nodes) = MaxOpNodes

\* C16: no step changes the class tag of a node: not setType, and not
\* setKindSelector on a constant.
C16_TagImmutable ==
  [][\A i \in 1..Len(nodes) :
       i <= Len(nodes') /\ nodes'[i].cls = nodes[i].cls]_vars

\* A constant carries a kind selector and a variable reference has been given
\* a type other than its declaration's.
C16_Witness ==
  /\ \E i \in 1..Len(nodes) : IsConstantExpr(nodes[i]) /\ nodes[i].Kind # 0
  /\ \E i \in 1..Len(nodes) :
       /\ nodes[i].cls = "VarExprClass"
       /\ nodes[i].Ty # DeclType(nodes[i].Variable)

\* The concrete classes whose classof accepts the node.
ClassesOf(E) == {V \in ConcreteClasses : classof(V, E)}

\* The class whose factory built the node, told by the members the node has.
BuiltBy(E) ==
  LET F == DOMAIN E
  IN  CASE "Variable" \in F -> "VarExpr"
        [] "StartingPoint" \in F -> "SubstringExpr"
        [] "Arguments" \in F -> "ArrayElementExpr"
        [] "E" \in F /\ "II" \in F -> "DefinedUnaryOperatorExpr"
        [] "E" \in F /\ "II" \notin F -> "UnaryExpr"
        [] "LHS" \in F /\ "II" \in F -> "DefinedBinaryOperatorExpr"
        [] "LHS" \in F /\ "II" \notin F -> "BinaryExpr"
        [] "Val" \in F -> "LogicalConstantExpr"
        [] "Data" \in F -> "CharacterConstantExpr"
        [] "BOZKind" \in F -> "BOZConstantExpr"
        [] "Num" \in F /\ "BOZKind" \notin F -> "IntegerConstantExpr"

\* C17: every node is accepted by the classof of exactly one concrete class,
\* the class whose factory built it: a user-defined operator node is not
\* accepted by the built-in operator's classof; and ConstantExpr::classof
\* accepts exactly the nodes of the constant classes.
C17_OneClass ==
  \A i \in 1..Len(nodes) :
    /\ ClassesOf(nodes[i]) = {BuiltBy(nodes[i])}
    /\ IsConstantExpr(nodes[i]) <=> BuiltBy(nodes[i]) \in ConstantClasses

\* A built-in and a user-defined unary operator node exist together.
C17_Witness ==
  /\ \E i \in 1..Len(nodes) :
       BuiltBy(nodes[i]) = "UnaryExpr" /\ ~classof("DefinedUnaryOperatorExpr", nodes[i])
  /\ \E i \in 1..Len(nodes) :
       BuiltBy(nodes[i]) = "DefinedUnaryOperatorExpr" /\ ~classof("UnaryExpr", nodes[i])
  /\ \E i \in 1..Len(nodes) :
       BuiltBy(nodes[i]) = "LogicalConstantExpr" /\ IsConstantExpr(nodes[i])

\* Expr::getType
getType(E) == E.Ty

\* C18: after a setType call on a node, getType returns the call's argument,
\* also when the node's type had been set before; the call leaves the node's
\* class tag, location and the other fields, and every other node, as they
\* were.
C18_SetTypeFrame ==
  [][\A i \in 1..Len(nodes), T \in ResolvedTypes :
       setType(i, T) =>
         /\ getType(nodes'[i]) = T
         /\ nodes'[i].cls = nodes[i].cls
         /\ getLocation(nodes'[i]) = getLocation(nodes[i])
         /\ [nodes'[i] EXCEPT !.Ty = nodes[i].Ty] = nodes[i]
         /\ \A j \in 1..Len(nodes) : j # i => nodes'[j] = nodes[j]]_vars

\* A unary operator node whose type was set to one that construction cannot
\* give it.
C18_Witness ==
  \E i \in UnaryNodes :
    /\ getType(nodes[i]) = "IntegerArrayTy"
    /\ getType(nodes[nodes[i].E]) = "LogicalTy"
    /\ nodes[nodes[i].E].cls = "VarExprClass"

ArrayElementNodes ==
  {i \in 1..Len(nodes) : nodes[i].cls = "ArrayElementExprClass"}

\* C20: ArrayElementExpr::Create yields a node only for a target whose type
\* at that moment is an array type, and the node's type is then that array
\* type's element type (for any other target no node is yielded); a later
\* setType on the target leaves the element node's type as it is.
C20_ElementTypeEager ==
  /\ [][(Appended /\ NewNode.cls = "ArrayElementExprClass") =>
          /\ asArrayType(nodes[NewNode.Target].Ty) # NoArrayType
          /\ NewNode.Ty = getElementType(asArrayType(nodes[NewNode.Target].Ty))]_vars
  /\ [][\A i \in ArrayElementNodes :
          nodes'[nodes[i].Target].Ty # nodes[nodes[i].Target].Ty =>
            nodes'[i].Ty = nodes[i].Ty]_vars

----------------------------------------------------------------------------
(* SpecBin: two operands and the built-in binary operators over them, with  *)
(* the result type the caller passes.                                       *)

MaxBinNodes == 3

\* The result types callers pass to BinaryExpr::Create.
CallerTypes == {"IntegerTy", "LogicalTy"}

BinVar ==
  /\ Len(nodes) < MaxBinNodes
  /\ \E VD \in VarDecls : VarExprCreate(1, VD)

BinLogicalConstant ==
  /\ Len(nodes) < MaxBinNodes
  /\ LogicalConstantExprCreate(1, Len(tokenBuf), tokenBuf)

BinBinary ==
  /\ Len(nodes) < MaxBinNodes
  /\ \E Loc \in OpLocs, Op \in BinaryOperator, Type \in CallerTypes,
        LHS \in FreeNodes, RHS \in FreeNodes :
       LHS < RHS /\ BinaryExprCreate(Loc, Op, Type, LHS, RHS)

NextBin ==
  \/ BinVar
  \/ BinLogicalConstant
  \/ BinBinary

SpecBin == InitOp /\ [][NextBin]_vars

\* C13: a node BinaryExpr::Create returns for a logical or a relational
\* operator has the logical type, whatever the types of its operands and
\* whatever type the caller passes.
C13_BooleanResult ==
  [][(Appended /\ NewNode.cls = "BinaryExprClass"
        /\ NewNode.Op \in LogicalOperators \cup RelationalOperators) =>
       NewNode.Ty = "LogicalTy"]_vars

----------------------------------------------------------------------------
(* SpecTree: variable references and binary operator nodes over them, the   *)
(* operands of an operator built before it and in source order.             *)

MaxTreeNodes == 5

TreeVar ==
  /\ Len(nodes) < MaxTreeNodes
  /\ \E Loc \in Locs, VD \in VarDecls : VarExprCreate(Loc, VD)

TreeBinary ==
  /\ Len(nodes) < MaxTreeNodes
  /\ \E Loc \in Locs, LHS \in FreeNodes, RHS \in FreeNodes :
       LHS < RHS /\ BinaryExprCreate(Loc, "Plus", nodes[LHS].Ty, LHS, RHS)

TreeDefinedBinary ==
  /\ Len(nodes) < MaxTreeNodes
  /\ \E Loc \in OpLocs, LHS \in FreeNodes, RHS \in FreeNodes, II \in Identifiers :
       LHS < RHS /\ DefinedBinaryOperatorExprCreate(Loc, LHS, RHS, II)

NextTree ==
  \/ TreeVar
  \/ TreeBinary
  \/ TreeDefinedBinary

SpecTree == InitSpan /\ [][NextTree]_vars

BinaryNodes ==
  {i \in 1..Len(nodes) :
     nodes[i].cls \in {"BinaryExprClass", "DefinedBinaryOperatorExprClass"}}

\* The first and the last operand of a tree of binary operators that is not
\* itself a binary operator.
RECURSIVE LeftmostOperand(_)
LeftmostOperand(i) ==
  IF i \in BinaryNodes THEN LeftmostOperand(nodes[i].LHS) ELSE i

RECURSIVE RightmostOperand(_)
RightmostOperand(i) ==
  IF i \in BinaryNodes THEN RightmostOperand(nodes[i].RHS) ELSE i

\* C15: the span of a binary operator node starts where its left operand's
\* span starts and ends where its right operand's span ends, through nested
\* binary operands down to the first and the last operand of the tree, which
\* here are variable references; the operator's own location plays no part.
C15_BinarySpan ==
  \A i \in BinaryNodes :
    /\ getLocStart(i) = getLocStart(nodes[i].LHS)
    /\ getLocEnd(i) = getLocEnd(nodes[i].RHS)
    /\ getLocStart(i) = getLocation(nodes[LeftmostOperand(i)])
    /\ getLocEnd(i) = getLocation(nodes[RightmostOperand(i)])
         + IdentifierLength(nodes[RightmostOperand(i)].Variable)

\* (a op b) op c has been built, and the location of its root operator is
\* neither the start nor the end of its span.
C15_Witness ==
  \E i \in BinaryNodes :
    /\ nodes[i].LHS \in BinaryNodes
    /\ nodes[i].RHS \notin BinaryNodes
    /\ getLocation(nodes[i]) # getLocStart(i)
    /\ getLocation(nodes[i]) # getLocEnd(i)
    /\ getLocStart(i) = getLocation(nodes[LeftmostOperand(i)])

----------------------------------------------------------------------------
(* Variable references and their declarations.                              *)

VarNodes == {i \in 1..Len(nodes) : nodes[i].cls = "VarExprClass"}

\* C19: VarExpr::Create(C, Loc, VD) marks VD used as a variable and returns a
\* node at Loc that refers to VD and has VD's type; hence every declaration
\* some VarExpr refers to is marked used.
C19_MarkedUsed ==
  /\ [](\A i \in VarNodes : decls[nodes[i].Variable])
  /\ [][\A Loc \in Locs, VD \in VarDecls :
          VarExprCreate(Loc, VD) =>
            /\ decls'[VD]
            /\ NewNode.cls = "VarExprClass"
            /\ NewNode.Variable = VD
            /\ getType(NewNode) = DeclType(VD)
            /\ getLocation(NewNode) = Loc]_vars

\* A reference to one declaration exists, that declaration is marked and the
\* other one, which no node refers to, is not.
C19_Witness ==
  \E VD \in VarDecls :
    /\ \E i \in VarNodes : nodes[i].Variable = VD
    /\ decls[VD]
    /\ \E VO \in VarDecls : VO # VD /\ ~decls[VO]

----------------------------------------------------------------------------
(* SpecStore: one APIntStorage, set several times over its life.            *)

MaxStores == 3

\* ASTContext::Deallocate(Ptr): the array Ptr points to is released once
\* more; a Ptr that is no array of the context is counted apart.
Deallocate(M, Ptr) ==
  IF Ptr \in DOMAIN M.bufs
    THEN [M EXCEPT !.bufs[Ptr].freed = @ + 1]
    ELSE [M EXCEPT !.wild = @ + 1]

\* new (C) uint64_t[NumWords], filled by std::copy
AllocateWords(M, Words) ==
  [M EXCEPT !.bufs = Append(@, [words |-> Words, freed |-> 0])]

\* APNumericStorage::setIntValue(C, Val) on the storage Num: the array the
\* storage holds is released first, then the words of Val are copied to a new
\* array or the single word is written over the union.
APNumericStorage_setIntValue(Val) ==
  LET M0 == [bufs |-> wordBufs, wild |-> wildFrees]
      M1 == IF hasAllocation(Num) THEN Deallocate(M0, pValBuf) ELSE M0
      NumWords == getNumWords(Val.BitWidth)
      M2 == IF NumWords > 1 THEN AllocateWords(M1, Val.limbs) ELSE M1
  IN  /\ Num' = setIntValue(Num, Val)
      /\ pValBuf' = IF NumWords > 1 THEN Len(M2.bufs) ELSE 0
      /\ wordBufs' = M2.bufs
      /\ wildFrees' = M2.wild
      /\ stored' = Append(stored, Val)

\* An APInt of the given width whose 16-bit limbs are fill, fill + 1, ...
APIntOf(width, fill) ==
  [BitWidth |-> width,
   limbs |-> clearUnusedBits(
               [i \in 1..(LimbsPerWord * getNumWords(width)) |->
                  (fill + i - 1) % LimbBase],
               width)]

StoreWidths == {8, 64, 65, 128}
StoreFills == {1, LimbBase - 1}
StoreValues == {APIntOf(w, f) : w \in StoreWidths, f \in StoreFills}

InitStore ==
  /\ nodes = <<>>
  /\ charBufs = <<>>
  /\ tokKind = "none" /\ tokenBuf = <<>>
  /\ call = NoCall
  /\ aborted = FALSE
  /\ NDEBUG \in BOOLEAN
  /\ decls = NoDecls
  /\ arraySpecs = <<>>
  /\ IdleExt

\* APIntStorage::setValue(C, Val)
APIntStorage_setValue(Val) ==
  /\ ~aborted
  /\ Len(stored) < MaxStores
  /\ APNumericStorage_setIntValue(Val)
  /\ UNCHANGED <<readResult, nodes, charBufs, tokenBuf, tokKind, call, aborted,
                 NDEBUG, decls, arraySpecs, ctxvars, cgvars,
                 qvars, bevars>>

\* APIntStorage::getValue()
APIntStorage_getValue == getIntValue(Num)

NextStore == \E Val \in StoreValues : APIntStorage_setValue(Val)

SpecStore == InitStore /\ [][NextStore]_vars

\* C21: the storage holds an external array exactly when its width needs
\* more than one word, and the inline word otherwise; the array, when there
\* is one, is live and holds the words stored; getValue returns the value
\* most recently stored, at its exact width.
C21_Representation ==
  /\ (getNumWords(Num.BitWidth) > 1) <=> (pValBuf # 0)
  /\ pValBuf # 0 =>
       /\ pValBuf \in DOMAIN wordBufs
       /\ wordBufs[pValBuf].freed = 0
       /\ Len(wordBufs[pValBuf].words) = LimbsPerWord * getNumWords(Num.BitWidth)
       /\ Num.pVal = wordBufs[pValBuf].words
  /\ pValBuf = 0 => Num.pVal = <<>> /\ Len(Num.VAL) = LimbsPerWord
  /\ stored # <<>> =>
       /\ APIntStorage_getValue = stored[Len(stored)]
       /\ APIntStorage_getValue.BitWidth = stored[Len(stored)].BitWidth

\* A storage set to several words, then to one word, then to several words
\* again reads back the last value.
C21_Witness ==
  /\ Len(stored) = 3
  /\ getNumWords(stored[1].BitWidth) > 1
  /\ getNumWords(stored[2].BitWidth) = 1
  /\ getNumWords(stored[3].BitWidth) > 1
  /\ stored[3] # stored[1]
  /\ APIntStorage_getValue = stored[3]

\* C22: every array the storage held before its present value has been
\* released exactly once, the array it holds now has not been released, and
\* Deallocate was never called with anything but such an array; so a set
\* over a one-word value releases nothing and no array is released twice.
C22_ReleaseOnce ==
  /\ wildFrees = 0
  /\ \A b \in DOMAIN wordBufs :
       wordBufs[b].freed = (IF b = pValBuf THEN 0 ELSE 1)
  /\ Len(wordBufs) =
       Cardinality({k \in DOMAIN stored : getNumWords(stored[k].BitWidth) > 1})

\* Two values of several words were stored one after the other and then a
\* value of one word: both arrays have been released, once each.
C22_Witness ==
  /\ Len(stored) = 3
  /\ getNumWords(stored[1].BitWidth) > 1
  /\ getNumWords(stored[2].BitWidth) > 1
  /\ getNumWords(stored[3].BitWidth) = 1
  /\ Len(wordBufs) = 2
  /\ wordBufs[1].freed = 1 /\ wordBufs[2].freed = 1

----------------------------------------------------------------------------
(* SpecFloat: one APFloatStorage, set and read several times.               *)

\* llvm::APFloat's formats and the width of their bit patterns.
sizeInBits ==
  [IEEEhalf |-> 16, IEEEsingle |-> 32, IEEEdouble |-> 64,
   x87DoubleExtended |-> 80, IEEEquad |-> 128, PPCDoubleDouble |-> 128]

fltSemantics == DOMAIN sizeInBits

\* APFloat::bitcastToAPInt
bitcastToAPInt(Val) ==
  [BitWidth |-> sizeInBits[Val.semantics], limbs |-> Val.bits]

Unreachable == "llvm_unreachable"

\* GetIEEEFloatSemantics(api): the format chosen by the width, or the
\* llvm_unreachable after the last test.
GetIEEEFloatSemantics(api) ==
  IF api.BitWidth = 16 THEN "IEEEhalf"
  ELSE IF api.BitWidth = 32 THEN "IEEEsingle"
  ELSE IF api.BitWidth = 64 THEN "IEEEdouble"
  ELSE IF api.BitWidth = 128 THEN "IEEEquad"
  ELSE Unreachable

FloatValues ==
  {[semantics |-> f, bits |-> APIntOf(sizeInBits[f], fill).limbs] :
     f \in fltSemantics, fill \in StoreFills}

\* APFloatStorage::setValue(C, Val)
APFloatStorage_setValue(Val) ==
  /\ ~aborted
  /\ Len(stored) < MaxStores
  /\ APNumericStorage_setIntValue(bitcastToAPInt(Val))
  /\ UNCHANGED <<readResult, nodes, charBufs, tokenBuf, tokKind, call, aborted,
                 NDEBUG, decls, arraySpecs, ctxvars, cgvars,
                 qvars, bevars>>

\* What a build without assertions can do once control is at llvm_unreachable,
\* which is undefined behaviour there: return a value in one of the formats
\* of the function, or trap.
UndefinedFloatReads(Bits) ==
  {[kind |-> "value", semantics |-> f, bits |-> Bits.limbs] :
     f \in {"IEEEhalf", "IEEEsingle", "IEEEdouble", "IEEEquad"}}
    \cup {[kind |-> "trap"]}

\* APFloatStorage::getValue(): getIntValue() builds an APInt of the stored
\* width, which APInt asserts to be positive, and GetIEEEFloatSemantics picks
\* the format; llvm_unreachable ends a build with assertions.
APFloatStorage_getValue ==
  LET Bits == getIntValue(Num)
      Sem == GetIEEEFloatSemantics(Bits)
  IN  /\ ~aborted
      /\ IF Bits.BitWidth = 0 /\ ~NDEBUG
           THEN readResult' = [kind |-> "assertion"] /\ aborted' = TRUE
         ELSE IF Sem # Unreachable
           THEN /\ readResult' =
                     [kind |-> "value", semantics |-> Sem, bits |-> Bits.limbs]
                /\ UNCHANGED aborted
         ELSE IF ~NDEBUG
           THEN readResult' = [kind |-> Unreachable] /\ aborted' = TRUE
         ELSE /\ readResult' \in UndefinedFloatReads(Bits)
              /\ aborted' = (readResult'.kind = "trap")
      /\ UNCHANGED <<Num, pValBuf, wordBufs, wildFrees, stored, nodes, charBufs,
                     tokenBuf, tokKind, call, NDEBUG, decls, arraySpecs, ctxvars, cgvars,
                 qvars, bevars>>

NextFloat ==
  \/ \E Val \in FloatValues : APFloatStorage_setValue(Val)
  \/ APFloatStorage_getValue

SpecFloat == InitStore /\ [][NextFloat]_vars

IEEEWidths == {16, 32, 64, 128}

\* C23: a read of the floating storage returns a value exactly when the
\* stored width is 16, 32, 64 or 128, and then the stored bits in the IEEE
\* format of that width; at any other width, 0 of a storage never set
\* included, the read is fatal and returns no value.
C23_ReadOutcome ==
  [][APFloatStorage_getValue =>
       IF Num.BitWidth \in IEEEWidths
         THEN /\ readResult'.kind = "value"
              /\ sizeInBits[readResult'.semantics] = Num.BitWidth
              /\ readResult'.semantics \in
                   {"IEEEhalf", "IEEEsingle", "IEEEdouble", "IEEEquad"}
              /\ readResult'.bits = stored[Len(stored)].limbs
              /\ ~aborted'
         ELSE readResult'.kind # "value" /\ aborted']_vars

----------------------------------------------------------------------------
(* SpecArena: factories called with one of two ASTContexts.  An address is  *)
(* the pair of the heap an object was allocated from and its index there.   *)

MaxArenaCalls == 3

GeneralHeap == "heap"
NullPtr == <<>>

\* new (C) T: the object is placed at the end of the arena of C.
operator_new(A, C, obj) == [A EXCEPT ![C] = Append(@, obj)]

\* The address the next allocation from C gets, after n others.
NextAddr(A, C, n) == <<C, Len(A[C]) + n + 1>>

\* A storage set by setIntValue(C, Val) in a fresh node: its words and the
\* array they were copied to, if they are several.
StorageIn(A, C, n, Val) ==
  [Num |-> setIntValue(APNumericStorage, Val),
   pValAt |-> IF getNumWords(Val.BitWidth) > 1 THEN NextAddr(A, C, n) ELSE NullPtr]

WordArrays(Vals) ==
  LET several == SelectSeq(Vals, LAMBDA v : getNumWords(v.BitWidth) > 1)
  IN  [k \in 1..Len(several) |-> [obj |-> "uint64_t[]", words |-> several[k].limbs]]

RECURSIVE AllocateAll(_, _, _)
AllocateAll(A, C, objs) ==
  IF objs = <<>> THEN A
  ELSE AllocateAll(operator_new(A, C, objs[1]), C, Tail(objs))

ArenaNodes(C) == {k \in DOMAIN arena[C] : arena[C][k].obj = "Node"}

ArenaCalls ==
  Cardinality(ArenaNodes("C1")) + Cardinality(ArenaNodes("C2"))

\* ComplexConstantExpr::Create(C, Loc, MaxLoc, Re, Im, Type): the node, then
\* Re.setValue(C, Re) and Im.setValue(C, Im).
ComplexConstantExprCreateIn(C, Loc, MaxLoc, Re, Im, Type) ==
  LET ReBits == bitcastToAPInt(Re)
      ImBits == bitcastToAPInt(Im)
      ReSt == StorageIn(arena, C, 1, ReBits)
      ImSt == StorageIn(arena, C, IF ReSt.pValAt = NullPtr THEN 1 ELSE 2, ImBits)
      node == [f \in {"Re"} |-> ReSt] @@ [f \in {"Im"} |-> ImSt]
                @@ ConstantExpr("ComplexConstantExprClass", Type, Loc, MaxLoc)
  IN  /\ ArenaCalls < MaxArenaCalls
      /\ arena' = AllocateAll(arena, C,
                    <<[obj |-> "Node", node |-> node]>>
                      \o WordArrays(<<ReBits, ImBits>>))
      /\ UNCHANGED <<heap, memvars, cgvars, qvars, bevars, nodes, charBufs, tokenBuf, tokKind,
                     call, aborted, NDEBUG, decls, arraySpecs>>

\* A variant whose char array comes from the general heap.
CharacterConstantExprCreateIn_Heap(C, Loc, MaxLoc, Data) ==
  /\ ArenaCalls < MaxArenaCalls
  /\ heap' = Append(heap, [obj |-> "char[]", bytes |-> CharacterData(Data)])
  /\ arena' = operator_new(arena, C,
                [obj |-> "Node",
                 node |-> CharacterConstantExpr(Loc, MaxLoc,
                            <<GeneralHeap, Len(heap) + 1>>)])
  /\ UNCHANGED <<memvars, cgvars, qvars, bevars, nodes, charBufs, tokenBuf, tokKind, call,
                 aborted, NDEBUG, decls, arraySpecs>>

\* CharacterConstantExpr::Create(C, Loc, MaxLoc, Data): the node, then
\* new (C) char[data.size() + 1].
CharacterConstantExprCreateIn(C, Loc, MaxLoc, Data) ==
  /\ ArenaCalls < MaxArenaCalls
  /\ arena' = AllocateAll(arena, C,
                <<[obj |-> "Node",
                   node |-> CharacterConstantExpr(Loc, MaxLoc, NextAddr(arena, C, 1))],
                  [obj |-> "char[]", bytes |-> CharacterData(Data)]>>)
  /\ UNCHANGED <<heap, memvars, cgvars, qvars, bevars, nodes, charBufs, tokenBuf, tokKind, call,
                 aborted, NDEBUG, decls, arraySpecs>>

\* MultiArgumentExpr::MultiArgumentExpr(C, Args): no argument is a null
\* pointer, one argument is held in the node, several are copied to
\* new (C) Expr *[NumArguments].
MultiArgumentExprIn(A, C, Args) ==
  [NumArguments |-> Len(Args),
   Arguments |-> IF Len(Args) = 0 THEN NullPtr
                 ELSE IF Len(Args) = 1 THEN Args[1]
                 ELSE NextAddr(A, C, 1)]

\* CallExpr::Create(C, Loc, Func, Args)
CallExprCreateIn(C, Loc, Func, Args) ==
  LET node == [f \in {"Function"} |-> Func] @@ MultiArgumentExprIn(arena, C, Args)
                @@ [cls |-> "CallExprClass", Ty |-> "IntegerTy", Loc |-> Loc]
  IN  /\ ArenaCalls < MaxArenaCalls
      /\ arena' = AllocateAll(arena, C,
                    <<[obj |-> "Node", node |-> node]>>
                      \o (IF Len(Args) > 1
                            THEN <<[obj |-> "Expr *[]", elems |-> Args]>>
                            ELSE <<>>))
      /\ UNCHANGED <<heap, memvars, cgvars, qvars, bevars, nodes, charBufs, tokenBuf, tokKind,
                     call, aborted, NDEBUG, decls, arraySpecs>>

ArenaFloats ==
  {[semantics |-> f, bits |-> APIntOf(sizeInBits[f], 1).limbs] :
     f \in {"IEEEdouble", "IEEEquad"}}

\* The argument lists a caller that works in C hands over: nodes of C, the
\* latest ones.
ArenaArgs(C) ==
  LET ns == ArenaNodes(C)
      Latest == CHOOSE k \in ns : \A j \in ns : j <= k
      Eldest == CHOOSE k \in ns : \A j \in ns : k <= j
  IN  IF ns = {} THEN {<<>>}
      ELSE {<<>>, << <<C, Latest>> >>, << <<C, Eldest>>, <<C, Latest>> >>}

NextArena ==
  \E C \in Contexts :
    \/ \E Re \in ArenaFloats, Im \in ArenaFloats :
         ComplexConstantExprCreateIn(C, 1, 2, Re, Im, "ComplexTy")
    \/ \E Data \in {<<>>, <<97, 98>>} : CharacterConstantExprCreateIn(C, 1, 2, Data)
    \/ \E Args \in ArenaArgs(C) : CallExprCreateIn(C, 1, "f", Args)

SpecArena == InitStore /\ [][NextArena]_vars

\* The addresses an object holds.
Refs(o) ==
  IF o.obj = "Expr *[]" THEN {o.elems[k] : k \in DOMAIN o.elems}
  ELSE IF o.obj # "Node" THEN {}
  ELSE IF o.node.cls = "ComplexConstantExprClass"
    THEN {o.node.Re.pValAt, o.node.Im.pValAt} \ {NullPtr}
  ELSE IF o.node.cls = "CharacterConstantExprClass" THEN {o.node.Data}
  ELSE IF o.node.cls = "CallExprClass" THEN {o.node.Arguments} \ {NullPtr}
  ELSE {}

\* The kind of object a node's field of some address is to point to.
Pointee(o, a) ==
  IF o.obj = "Expr *[]" THEN "Node"
  ELSE IF o.node.cls = "ComplexConstantExprClass" THEN "uint64_t[]"
  ELSE IF o.node.cls = "CharacterConstantExprClass" THEN "char[]"
  ELSE IF o.node.NumArguments = 1 THEN "Node" ELSE "Expr *[]"

\* C24: everything a factory call with context C creates is allocated from
\* C: nothing is on the general heap, a call leaves the other context's arena
\* as it was, and every address held by an object of C (a node's word array,
\* char array, argument array or argument, an array's elements) is that of an
\* object of C of the kind the field is for.
C24_ArenaOwnership ==
  /\ [](/\ heap = <<>>
        /\ \A C \in Contexts : \A k \in DOMAIN arena[C] :
             \A a \in Refs(arena[C][k]) :
               /\ a[1] = C
               /\ a[2] \in DOMAIN arena[C]
               /\ arena[C][a[2]].obj = Pointee(arena[C][k], a))
  /\ [][\A C \in Contexts :
          arena'[C] # arena[C] =>
            /\ \A D \in Contexts \ {C} : arena'[D] = arena[D]
            /\ SubSeq(arena'[C], 1, Len(arena[C])) = arena[C]]_vars

\* Each context holds a node with storage of its own: one a complex constant
\* with a word array, the other a character constant, and one of them a call
\* with an argument array.
C24_Witness ==
  /\ \E C \in Contexts : \E D \in Contexts \ {C} :
       /\ \E k \in ArenaNodes(C) :
            /\ arena[C][k].node.cls = "ComplexConstantExprClass"
            /\ arena[C][k].node.Re.pValAt # NullPtr
       /\ \E k \in ArenaNodes(D) :
            arena[D][k].node.cls = "CharacterConstantExprClass"
  /\ \E C \in Contexts : \E k \in ArenaNodes(C) :
       /\ arena[C][k].node.cls = "CallExprClass"
       /\ arena[C][k].node.NumArguments = 2

----------------------------------------------------------------------------
(* The code generator for character expressions.  An llvm::Value is held as *)
(* the number it computes when the emitted code runs: a pointer as an       *)
(* address, a length as a count of characters.                              *)

\* ExtQuals::hasLengthSelector and getLengthSelector, for the types a
\* declaration gives a character variable.
hasLengthSelector(T) == T = "CharacterLen2Ty"
getLengthSelector(T) == CASE T = "CharacterLen2Ty" -> 2

\* ExtLHS && ExtLHS->hasLengthSelector() ? ExtLHS->getLengthSelector() : 1
OperandLength(T) == IF hasLengthSelector(T) THEN getLengthSelector(T) ELSE 1

\* CodeGenTypes::GetCharacterTypeLength
TypesGetCharacterTypeLength(T) == OperandLength(T)

\* The value a call of a function without a return statement yields when it
\* does not happen to be the value computed last.
IndeterminateLength == 0

\* CodeGenFunction::GetCharacterTypeLength(T): the constant is built and the
\* function ends without returning it, so what the caller receives is
\* undefined; `computed` tells whether it is the constant all the same.
GetCharacterTypeLength(TypeLength, computed) ==
  IF computed THEN TypeLength ELSE IndeterminateLength

\* CodeGenFunction::GetCharacterValueFromPtr
GetCharacterValueFromPtr(Ptr, TypeLength, computed) ==
  [Ptr |-> Ptr, Len |-> GetCharacterTypeLength(TypeLength, computed)]

\* CodeGenFunction::GetVarPtr: the address of the variable's storage.
GetVarPtr(VD) == 100 * VD

\* CodeGenFunction::CreateTempAlloca: the address of the n-th temporary.
CreateTempAlloca(n) == 1000 + 100 * n

\* CodeGenFunction::EmitSizeIntExpr, for an integer constant: its value.
EmitSizeIntExpr(E) ==
  LET v == getValue(nodes[E]).limbs IN v[1] + LimbBase * v[2]

\* IRBuilder::CreateSub and CreateGEP
CreateSub(a, b) == a - b
CreateGEP(Ptr, Idx) == Ptr + Idx

\* CharacterExprEmitter::hasDestination
hasDestination(st) == st.Dest.Ptr # 0

\* CharacterExprEmitter::takeDestination, by the visit of E
takeDestination(st, E) ==
  [st EXCEPT !.Dest = NullValue, !.takers = Append(@, E)]

\* CharacterExprEmitter::VisitVarExpr, for a variable that is neither an
\* argument nor a parameter.
VisitVarExpr(E, computed) ==
  GetCharacterValueFromPtr(GetVarPtr(E.Variable),
                           TypesGetCharacterTypeLength(DeclType(E.Variable)),
                           computed)

\* A variant in which the end bound is taken for the length.
VisitSubstringExpr_EndAsLength(Str, StartingPoint, EndPoint) ==
  IF EndPoint # 0 THEN [Str EXCEPT !.Len = EmitSizeIntExpr(EndPoint)] ELSE Str

\* CharacterExprEmitter::VisitSubstringExpr, from the value Str emitted for
\* the target on.
VisitSubstringExpr(Str, StartingPoint, EndPoint) ==
  IF StartingPoint # 0
    THEN LET Start == CreateSub(EmitSizeIntExpr(StartingPoint), 1)
         IN  [Ptr |-> CreateGEP(Str.Ptr, Start),
              Len |-> IF EndPoint # 0
                        THEN CreateSub(EmitSizeIntExpr(EndPoint), Start)
                        ELSE CreateSub(Str.Len, Start)]
  ELSE IF EndPoint # 0
    THEN [Str EXCEPT !.Len = EmitSizeIntExpr(EndPoint)]
  ELSE Str

\* The destination of a concatenation or a call: the emitter's destination,
\* taken, or a new temporary of the given length.
DestinationOf(st, E, Size, computed) ==
  IF hasDestination(st)
    THEN [val |-> st.Dest, st |-> takeDestination(st, E)]
    ELSE LET T == GetCharacterValueFromPtr(CreateTempAlloca(Len(st.temps) + 1),
                                           Size, computed)
         IN  [val |-> T,
              st |-> [st EXCEPT !.temps =
                        Append(@, [for |-> E, Size |-> Size, value |-> T])]]

\* CodeGenFunction::EmitCall for a function that returns a character value:
\* the call is emitted with the return value argument and yields it.
EmitCall(st, Function, ReturnValueArg) ==
  [val |-> ReturnValueArg,
   st |-> [st EXCEPT !.emitted =
             Append(@, [func |-> Function, args |-> <<ReturnValueArg>>])]]

\* CharacterExprEmitter::EmitExpr: the visit of E by an emitter in state st;
\* the value returned and the state the emitter is left in.
RECURSIVE EmitExpr(_, _, _)
EmitExpr(E, st, computed) ==
  LET N == nodes[E]
  IN  IF N.cls = "VarExprClass"
        THEN [val |-> VisitVarExpr(N, computed), st |-> st]
      ELSE IF N.cls = "SubstringExprClass"
        THEN LET Str == EmitExpr(N.Target, st, computed)
             IN  [val |-> VisitSubstringExpr(Str.val, N.StartingPoint, N.EndPoint),
                  st |-> Str.st]
      ELSE IF N.cls = "BinaryExprClass"
        \* VisitBinaryExprConcat
        THEN LET Size == OperandLength(nodes[N.LHS].Ty)
                           + OperandLength(nodes[N.RHS].Ty)
                 D == DestinationOf(st, E, Size, computed)
                 Src1 == EmitExpr(N.LHS, D.st, computed)
                 Src2 == EmitExpr(N.RHS, Src1.st, computed)
             IN  [val |-> D.val,
                  st |-> [Src2.st EXCEPT !.emitted =
                            Append(@, [func |-> "concat",
                                       args |-> <<D.val, Src1.val, Src2.val>>])]]
      \* VisitCallExpr
      ELSE LET D == DestinationOf(st, E, TypesGetCharacterTypeLength(N.Ty), computed)
           IN  EmitCall(D.st, N.Function, D.val)

\* CallExpr::CallExpr, with MultiArgumentExpr holding the arguments.
FunctionDecls == {"f"}
FunctionType(Func) == "CharacterTy"
CallExpr(Loc, Func, Args) ==
  [cls |-> "CallExprClass", Ty |-> FunctionType(Func), Loc |-> Loc,
   Function |-> Func, Arguments |-> Args]

\* CallExpr::Create
CallExprCreate(Loc, Func, Args) ==
  /\ ~aborted
  /\ nodes' = Append(nodes, CallExpr(Loc, Func, Args))
  /\ UNCHANGED <<charBufs, tokenBuf, tokKind, call, aborted, NDEBUG, decls,
                 arraySpecs, extvars>>

\* CodeGenFunction::EmitCharacterAssignment(LHS, RHS)
EmitCharacterAssignment(LHS, RHS, computed) ==
  LET D == EmitExpr(LHS, [Dest |-> NullValue, emitted |-> emitted,
                          temps |-> temps, takers |-> takers], computed)
      \* EV.setDestination(Dest)
      S == EmitExpr(RHS, [D.st EXCEPT !.Dest = D.val], computed)
  IN  /\ ~aborted
      /\ stmt = NoStmt
      /\ stmt' = [LHS |-> LHS, RHS |-> RHS]
      /\ Dest' = D.val
      /\ Src' = S.val
      /\ EV' = S.st.Dest
      /\ emitted' =
           IF hasDestination(S.st)
             THEN Append(S.st.emitted,
                         [func |-> "assignment", args |-> <<D.val, S.val>>])
             ELSE S.st.emitted
      /\ temps' = S.st.temps
      /\ takers' = S.st.takers
      /\ UNCHANGED <<nodes, charBufs, tokenBuf, tokKind, call, aborted, NDEBUG,
                     decls, arraySpecs, memvars, ctxvars, qvars, bevars>>

----------------------------------------------------------------------------
(* SpecCG: the parser builds the expressions of one character assignment,   *)
(* whose left-hand side is the first node and whose right-hand side the     *)
(* last, and the code generator emits it.                                   *)

MaxCGNodes == 4

CGVarDecls == {1, 3}
CGBounds == {Digits(<<2>>), Digits(<<3>>)}

CharacterNodes ==
  {i \in 1..Len(nodes) :
     nodes[i].cls \in {"VarExprClass", "SubstringExprClass", "BinaryExprClass",
                       "CallExprClass"}}
BoundNodes == {i \in 1..Len(nodes) : nodes[i].cls = "IntegerConstantExprClass"}

InitCG ==
  /\ nodes = <<>>
  /\ charBufs = <<>>
  /\ tokKind = "none" /\ tokenBuf = <<>>
  /\ call = NoCall
  /\ aborted = FALSE
  /\ NDEBUG = FALSE
  /\ decls = [d \in CGVarDecls |-> FALSE]
  /\ arraySpecs = <<>>
  /\ IdleExt

Building == stmt = NoStmt /\ Len(nodes) < MaxCGNodes

CGVar == Building /\ \E VD \in CGVarDecls : VarExprCreate(1, VD)

CGBound ==
  /\ Building /\ nodes # <<>>
  /\ \E Data \in CGBounds : IntegerConstantExprCreate(1, 1, Data)

CGCall ==
  /\ Building /\ nodes # <<>>
  /\ \E Func \in FunctionDecls : CallExprCreate(1, Func, <<>>)

CGConcat ==
  /\ Building
  /\ \E L \in CharacterNodes, R \in CharacterNodes :
       /\ Len(nodes) \in {L, R}
       /\ BinaryExprCreate(2, "Concat", "CharacterTy", L, R)

CGSubstring ==
  /\ Building
  /\ \E T \in CharacterNodes, S \in BoundNodes \cup {0}, E \in BoundNodes \cup {0} :
       /\ (S # 0 => T < S) /\ (E # 0 => T < E) /\ (S # 0 /\ E # 0 => S < E)
       /\ Len(nodes) \in {T, S, E}
       /\ SubstringExprCreate(2, T, S, E)

CGEmit ==
  /\ nodes # <<>>
  /\ nodes[1].cls = "VarExprClass"
  /\ Len(nodes) \in CharacterNodes
  /\ \E computed \in BOOLEAN : EmitCharacterAssignment(1, Len(nodes), computed)

NextCG ==
  \/ CGVar
  \/ CGBound
  \/ CGCall
  \/ CGConcat
  \/ CGSubstring
  \/ CGEmit

SpecCG == InitCG /\ [][NextCG]_vars

----------------------------------------------------------------------------
(* Character assignments: what the emitted code is said to do.              *)

Concats == {i \in 1..Len(nodes) : nodes[i].cls = "BinaryExprClass"}

\* C25: the temporary allocated for a concatenation that has no destination
\* has the length length(LHS) + length(RHS), an operand's length being the
\* length selector of its type, or 1 when the type has none: both the type
\* the temporary is allocated with and the length of the temporary's
\* character value are that sum.
C25_TemporaryLength ==
  \A k \in DOMAIN temps :
    temps[k].for \in Concats =>
      LET N == nodes[temps[k].for]
          Sum == OperandLength(nodes[N.LHS].Ty) + OperandLength(nodes[N.RHS].Ty)
      IN  temps[k].Size = Sum /\ temps[k].value.Len = Sum

\* The emitter before any visit, without a destination and with one.
EmitterStates ==
  {[Dest |-> d, emitted |-> <<>>, temps |-> <<>>, takers |-> <<>>] :
     d \in {NullValue, [Ptr |-> 900, Len |-> 1]}}

\* C26: for a target emitted as (p, L) and bounds s and e, the substring is
\* emitted as (p + (s - 1), e - s + 1), an absent s being 1 and an absent e
\* being L; with both absent it is the target's value.
C26_SubstringValue ==
  \A i \in Substrings : \A st \in EmitterStates, computed \in BOOLEAN :
    LET N == nodes[i]
        t == EmitExpr(N.Target, st, computed).val
        r == EmitExpr(i, st, computed).val
        s == IF N.StartingPoint # 0 THEN EmitSizeIntExpr(N.StartingPoint) ELSE 1
        e == IF N.EndPoint # 0 THEN EmitSizeIntExpr(N.EndPoint) ELSE t.Len
    IN  /\ r.Ptr = t.Ptr + (s - 1)
        /\ r.Len = e - s + 1
        /\ (N.StartingPoint = 0 /\ N.EndPoint = 0) => r = t

\* The assignment v = v(2:3) was emitted: the value of the right-hand side
\* starts one character into v and is two characters long.
C26_Witness ==
  /\ stmt # NoStmt
  /\ nodes[stmt.RHS].cls = "SubstringExprClass"
  /\ nodes[stmt.RHS].StartingPoint # 0 /\ nodes[stmt.RHS].EndPoint # 0
  /\ nodes[nodes[stmt.RHS].Target].cls = "VarExprClass"
  /\ Src = [Ptr |-> Dest.Ptr + 1, Len |-> 2]

AssignmentCalls == SelectSeq(emitted, LAMBDA c : c.func = "assignment")

\* C27: an emitted assignment writes the value of the right-hand side into
\* the left-hand side exactly once: either one visit took the destination,
\* no run-time assignment is called and the value of the right-hand side is
\* the destination, or no visit took it and the run-time assignment is called
\* exactly once, from the value of the right-hand side to the left-hand side.
C27_OneWrite ==
  stmt # NoStmt =>
    /\ Len(takers) <= 1
    /\ \/ Len(takers) = 1 /\ AssignmentCalls = <<>> /\ Src = Dest
       \/ /\ takers = <<>>
          /\ Len(AssignmentCalls) = 1
          /\ AssignmentCalls[1].args = <<Dest, Src>>

\* C28: when the destination was consumed while the right-hand side was
\* emitted, the value returned for the right-hand side is the destination,
\* and the expression that took it is the right-hand side itself.
C28_TopLevelTaker ==
  (stmt # NoStmt /\ ~hasDestination([Dest |-> EV])) =>
    /\ Src = Dest
    /\ takers = <<stmt.RHS>>

----------------------------------------------------------------------------
(* SpecEnd: nodes with argument lists, and the end-of-span query on them.   *)

MaxEndNodes == 3

\* IntrinsicCallExpr::IntrinsicCallExpr
IntrinsicCallExpr(Loc, Func, Args, ReturnType) ==
  [cls |-> "IntrinsicCallExprClass", Ty |-> ReturnType, Loc |-> Loc,
   Function |-> Func, Arguments |-> Args]

\* IntrinsicCallExpr::Create
IntrinsicCallExprCreate(Loc, Func, Arguments, ReturnType) ==
  /\ ~aborted
  /\ nodes' = Append(nodes, IntrinsicCallExpr(Loc, Func, Arguments, ReturnType))
  /\ UNCHANGED <<charBufs, tokenBuf, tokKind, call, aborted, NDEBUG, decls,
                 arraySpecs, extvars>>

\* ArrayConstructorExpr::ArrayConstructorExpr
ArrayConstructorExpr(Loc, Items, Ty) ==
  [cls |-> "ArrayConstructorExprClass", Ty |-> Ty, Loc |-> Loc,
   Arguments |-> Items]

\* ArrayConstructorExpr::Create
ArrayConstructorExprCreate(Loc, Items, Ty) ==
  /\ ~aborted
  /\ nodes' = Append(nodes, ArrayConstructorExpr(Loc, Items, Ty))
  /\ UNCHANGED <<charBufs, tokenBuf, tokKind, call, aborted, NDEBUG, decls,
                 arraySpecs, extvars>>

\* What a build without assertions can come to when back() is called on an
\* empty list: some location, or a trap.
UndefinedLocEnds ==
  {[kind |-> "loc", loc |-> l] : l \in {0, 1}} \cup {[kind |-> "trap"]}

\* A call of getLocEnd on the node E.  ArrayRef::back() asserts that the list
\* is not empty.
CallGetLocEnd(E) ==
  LET End == getLocEnd(E)
  IN  /\ ~aborted
      /\ IF End # BackOfEmpty
           THEN locEnd' = [kind |-> "loc", loc |-> End] /\ UNCHANGED aborted
         ELSE IF ~NDEBUG
           THEN locEnd' = [kind |-> "assertion"] /\ aborted' = TRUE
         ELSE /\ locEnd' \in UndefinedLocEnds
              /\ aborted' = (locEnd'.kind = "trap")
      /\ UNCHANGED <<nodes, charBufs, tokenBuf, tokKind, call, NDEBUG, decls,
                     arraySpecs, memvars, ctxvars, cgvars, bevars>>

EndVarDecls == {1, 4}

InitEnd ==
  /\ nodes = <<>>
  /\ charBufs = <<>>
  /\ tokKind = "none" /\ tokenBuf = <<>>
  /\ call = NoCall
  /\ aborted = FALSE
  /\ NDEBUG \in BOOLEAN
  /\ decls = [d \in EndVarDecls |-> FALSE]
  /\ arraySpecs = <<>>
  /\ IdleExt

\* The argument lists the parser hands over: none, the latest node, or the
\* latest two.
EndArgs ==
  {<<>>}
    \cup (IF Len(nodes) >= 1 THEN {<<Len(nodes)>>} ELSE {})
    \cup (IF Len(nodes) >= 2 THEN {<<Len(nodes) - 1, Len(nodes)>>} ELSE {})

EndBuilding == Len(nodes) < MaxEndNodes

EndVar == EndBuilding /\ \E VD \in EndVarDecls : VarExprCreate(1, VD)

EndCall ==
  EndBuilding /\ \E Args \in EndArgs : CallExprCreate(2, "f", Args)

EndIntrinsicCall ==
  EndBuilding /\ \E Args \in EndArgs :
    IntrinsicCallExprCreate(2, "LEN", Args, "IntegerTy")

EndArrayConstructor ==
  EndBuilding /\ \E Items \in EndArgs :
    ArrayConstructorExprCreate(2, Items, "IntegerArrayTy")

EndArrayElement ==
  /\ EndBuilding
  /\ \E T \in 1..Len(nodes), Subs \in EndArgs :
       /\ nodes[T].cls = "VarExprClass"
       /\ asArrayType(nodes[T].Ty) # NoArrayType
       /\ ArrayElementExprCreate(2, T, Subs)

EndQuery == \E E \in 1..Len(nodes) : CallGetLocEnd(E)

NextEnd ==
  \/ EndVar
  \/ EndCall
  \/ EndIntrinsicCall
  \/ EndArrayConstructor
  \/ EndArrayElement
  \/ EndQuery

SpecEnd == InitEnd /\ [][NextEnd]_vars

ListNodes ==
  {i \in 1..Len(nodes) :
     nodes[i].cls \in {"ArrayElementExprClass", "CallExprClass",
                       "IntrinsicCallExprClass", "ArrayConstructorExprClass"}}

\* C29: the end-of-span query is defined for every node the factories build:
\* a call of getLocEnd neither fails nor reads the last element of an empty
\* list, and a node built with an empty argument, subscript or item list has
\* its own location for its end of span.
C29_EndDefined ==
  /\ [](\A i \in 1..Len(nodes) :
          /\ getLocEnd(i) # BackOfEmpty
          /\ (i \in ListNodes /\ nodes[i].Arguments = <<>>) =>
               getLocEnd(i) = getLocation(nodes[i]))
  /\ [][\A E \in 1..Len(nodes) :
          CallGetLocEnd(E) => ~aborted' /\ locEnd'.kind = "loc"]_vars

----------------------------------------------------------------------------
(* SpecBackend: EmitBackendOutput on a module: one EmitAssemblyHelper, and  *)
(* one call of EmitAssembly.                                                *)

MaxFunctions == 2

BackendActions ==
  {"Backend_EmitAssembly", "Backend_EmitBC", "Backend_EmitLL",
   "Backend_EmitNothing", "Backend_EmitMCNull", "Backend_EmitObj"}

UsesCodeGen(Action) ==
  /\ Action # "Backend_EmitNothing"
  /\ Action # "Backend_EmitBC"
  /\ Action # "Backend_EmitLL"

\* A variant that reports the failed lookup whether or not a target machine
\* is needed.
CreateTargetMachine_AlwaysReports(MustCreateTM, found, machine) ==
  IF ~found
    THEN [TM |-> Null, Diags |-> <<"err_fe_unable_to_create_target">>]
    ELSE [TM |-> machine, Diags |-> <<>>]

\* EmitAssemblyHelper::CreateTargetMachine(MustCreateTM): `found` is whether
\* TargetRegistry::lookupTarget finds the target of the module's triple and
\* `machine` what TheTarget->createTargetMachine returns.
CreateTargetMachine(MustCreateTM, found, machine) ==
  IF ~found
    THEN [TM |-> Null,
          Diags |-> IF MustCreateTM
                      THEN <<"err_fe_unable_to_create_target">> ELSE <<>>]
    ELSE [TM |-> machine, Diags |-> <<>>]

\* getPerFunctionPasses, getPerModulePasses and getCodeGenPasses: the manager
\* is created at its first use, with the data layout pass and the target's
\* analysis passes when there is a target machine.
getPasses(PM, tm) ==
  IF ~PM.created
    THEN [created |-> TRUE,
          passes |-> <<"DataLayoutPass">>
                       \o (IF tm # Null THEN <<"TargetAnalysisPasses">> ELSE <<>>)]
    ELSE PM

add(PM, pass) == [PM EXCEPT !.passes = Append(@, pass)]

\* EmitAssemblyHelper::CreatePasses: the per-function and the per-module
\* manager, filled by the pass manager builder.
CreatePasses(P, tm) ==
  LET FPM0 == getPasses(P.PerFunctionPasses, tm)
      FPM1 == IF VerifyModule THEN add(FPM0, "VerifierPass") ELSE FPM0
      MPM0 == getPasses(P.PerModulePasses, tm)
  IN  [P EXCEPT !.PerFunctionPasses = add(FPM1, "populateFunctionPassManager"),
                !.PerModulePasses = add(MPM0, "populateModulePassManager")]

\* EmitAssemblyHelper::AddEmitPasses: the code generation manager with the
\* library info, the target's analysis passes and the passes that emit the
\* file; `fails` is the result of TM->addPassesToEmitFile.
AddEmitPasses(P, Action, tm, fails) ==
  LET PM == add(add(getPasses(P.CodeGenPasses, tm), "TargetLibraryInfo"),
                "TargetAnalysisPasses")
      CGFT == IF Action = "Backend_EmitObj" THEN "CGFT_ObjectFile"
              ELSE IF Action = "Backend_EmitMCNull" THEN "CGFT_Null"
              ELSE "CGFT_AssemblyFile"
  IN  IF fails
        THEN [ok |-> FALSE,
              P |-> [P EXCEPT !.CodeGenPasses = PM,
                              !.Diags = Append(@,
                                  "err_fe_unable_to_interface_with_target")]]
        ELSE [ok |-> TRUE, P |-> [P EXCEPT !.CodeGenPasses = add(PM, CGFT)]]

\* The runs of the per-function manager: one for each function of the module
\* that is not a declaration, in the module's order.
RECURSIVE FunctionRuns(_)
FunctionRuns(k) ==
  IF k > Len(TheModule) THEN <<>>
  ELSE (IF ~TheModule[k] THEN <<[pm |-> "PerFunctionPasses", on |-> k]>> ELSE <<>>)
         \o FunctionRuns(k + 1)

\* The end of EmitAssembly: the managers that exist are run.
RunPasses(P) ==
  (IF P.PerFunctionPasses.created THEN FunctionRuns(1) ELSE <<>>)
    \o (IF P.PerModulePasses.created
          THEN <<[pm |-> "PerModulePasses", on |-> 0]>> ELSE <<>>)
    \o (IF P.CodeGenPasses.created
          THEN <<[pm |-> "CodeGenPasses", on |-> 0]>> ELSE <<>>)

\* EmitAssemblyHelper::EmitAssembly(Action, OS)
EmitAssembly(Action, found, machine, fails) ==
  LET Created == IF TM = Null
                   THEN CreateTargetMachine(UsesCodeGen(Action), found, machine)
                   ELSE [TM |-> TM, Diags |-> <<>>]
      P0 == [PerFunctionPasses |-> PerFunctionPasses,
             PerModulePasses |-> PerModulePasses,
             CodeGenPasses |-> CodeGenPasses,
             Diags |-> Diags \o Created.Diags]
      P1 == CreatePasses(P0, Created.TM)
      Emit == AddEmitPasses(P1, Action, Created.TM, fails)
      P2 == IF Action = "Backend_EmitNothing" THEN P1
            ELSE IF Action = "Backend_EmitBC"
              THEN [P1 EXCEPT !.PerModulePasses = add(@, "BitcodeWriterPass")]
            ELSE IF Action = "Backend_EmitLL"
              THEN [P1 EXCEPT !.PerModulePasses = add(@, "PrintModulePass")]
            ELSE Emit.P
      Runs == IF UsesCodeGen(Action) /\ ~Emit.ok THEN <<>> ELSE RunPasses(P2)
      Final == IF UsesCodeGen(Action) /\ Created.TM = Null THEN P0 ELSE P2
  IN  /\ backendAction = "none"
      /\ backendAction' = Action
      /\ targetFound' = found
      /\ TM' = Created.TM
      /\ Diags' = Final.Diags
      /\ PerFunctionPasses' = Final.PerFunctionPasses
      /\ PerModulePasses' = Final.PerModulePasses
      /\ CodeGenPasses' = Final.CodeGenPasses
      /\ ran' = IF UsesCodeGen(Action) /\ Created.TM = Null THEN <<>> ELSE Runs
      /\ UNCHANGED <<TheModule, VerifyModule, nodes, charBufs, tokenBuf, tokKind,
                     call, aborted, NDEBUG, decls, arraySpecs, memvars, ctxvars,
                     cgvars, qvars>>

Modules == UNION {[1..n -> BOOLEAN] : n \in 0..MaxFunctions}

InitBackend ==
  /\ nodes = <<>>
  /\ charBufs = <<>>
  /\ tokKind = "none" /\ tokenBuf = <<>>
  /\ call = NoCall
  /\ aborted = FALSE
  /\ NDEBUG = FALSE
  /\ decls = NoDecls
  /\ arraySpecs = <<>>
  /\ IdleMem /\ IdleCtx /\ IdleCG /\ IdleQuery
  /\ TheModule \in Modules
  /\ VerifyModule \in BOOLEAN
  /\ EmitAssemblyHelper

\* flang::EmitBackendOutput: the helper is constructed and EmitAssembly is
\* called once.  A target that is not found yields no machine.
EmitBackendOutput ==
  \E Action \in BackendActions, found \in BOOLEAN, machine \in {Null, "TM"},
     fails \in BOOLEAN :
    /\ ~found => machine = Null
    /\ (fails => UsesCodeGen(Action) /\ machine # Null)
    /\ EmitAssembly(Action, found, machine, fails)

NextBackend == EmitBackendOutput

SpecBackend == InitBackend /\ [][NextBackend]_vars

CreateTargetDiagnosed ==
  \E k \in DOMAIN Diags : Diags[k] = "err_fe_unable_to_create_target"

NoPassCreatedOrRun ==
  /\ ~PerFunctionPasses.created
  /\ ~PerModulePasses.created
  /\ ~CodeGenPasses.created
  /\ ran = <<>>

\* The runs are in the order per-function, per-module, code generation.
RunsInOrder ==
  LET rank(r) == IF r.pm = "PerFunctionPasses" THEN 1
                 ELSE IF r.pm = "PerModulePasses" THEN 2 ELSE 3
  IN  \A j \in DOMAIN ran, k \in DOMAIN ran : j < k => rank(ran[j]) <= rank(ran[k])

PassesCreatedAndRun ==
  /\ PerFunctionPasses.created /\ PerModulePasses.created
  /\ SelectSeq(ran, LAMBDA r : r.pm = "PerFunctionPasses") = FunctionRuns(1)
  /\ Len(SelectSeq(ran, LAMBDA r : r.pm = "PerModulePasses")) = 1
  /\ Len(SelectSeq(ran, LAMBDA r : r.pm = "CodeGenPasses")) =
       (IF CodeGenPasses.created THEN 1 ELSE 0)
  /\ RunsInOrder

\* C30 as stated: EmitAssembly reports the unable-to-create-target diagnostic
\* and returns without creating or running any pass exactly when the action
\* uses the code generator and there is no target machine; for EmitNothing,
\* EmitBC and EmitLL it reports no such diagnostic and the passes are created
\* and run in order.
C30_DiagnosticIffNoMachine ==
  backendAction # "none" =>
    /\ (CreateTargetDiagnosed /\ NoPassCreatedOrRun)
         <=> (UsesCodeGen(backendAction) /\ TM = Null)
    /\ ~UsesCodeGen(backendAction) =>
         ~CreateTargetDiagnosed /\ PassesCreatedAndRun

\* C30 amended: the diagnostic is reported exactly when the action uses the
\* code generator and the target is not found; EmitAssembly returns without
\* creating or running any pass exactly when the action uses the code
\* generator and there is no target machine, found target or not; for
\* EmitNothing, EmitBC and EmitLL nothing is reported and the per-function and
\* per-module passes are created and run in that order, with no code
\* generation passes; with a target machine the code generation passes run
\* last, unless they cannot be added, and then nothing is run.
C30_DiagnosticIffNoTarget ==
  backendAction # "none" =>
    /\ CreateTargetDiagnosed <=> (UsesCodeGen(backendAction) /\ ~targetFound)
    /\ NoPassCreatedOrRun <=> (UsesCodeGen(backendAction) /\ TM = Null)
    /\ ~UsesCodeGen(backendAction) =>
         Diags = <<>> /\ ~CodeGenPasses.created /\ PassesCreatedAndRun
    /\ (UsesCodeGen(backendAction) /\ TM # Null) =>
         /\ CodeGenPasses.created
         /\ IF Diags = <<>> THEN PassesCreatedAndRun
            ELSE Diags = <<"err_fe_unable_to_interface_with_target">> /\ ran = <<>>

\* An object file was asked for, the target was found but gave no machine:
\* nothing is reported and no pass is created or run.
C30_Witness ==
  /\ backendAction = "Backend_EmitObj"
  /\ targetFound /\ TM = Null
  /\ Diags = <<>>
  /\ NoPassCreatedOrRun
  /\ \E k \in DOMAIN TheModule : ~TheModule[k]

====
